---- MODULE Spec2Model ----
(***************************************************************************)
(* Static RMLSA (routing, modulation level and spectrum assignment) for    *)
(* elastic optical networks: the per-link slot occupancy grid, the         *)
(* First-Fit / Minimum-Watermark assignment heuristics and the Solution    *)
(* validator, in the two variants the repository holds:                    *)
(*   "core"  : src/src/core + src/src/algorithms (Network, sp_ff_assign,   *)
(*             ksp_mw_assign, Solution)                                    *)
(*   "final" : src/version_final/core.py + src/algorithms.py (Network,     *)
(*             run_sp_ff)                                                  *)
(***************************************************************************)
EXTENDS Integers, Sequences, FiniteSets, TLC

VARIABLES
    impl,       \* which variant's Network object this behaviour drives
    spectrum,   \* Network.spectrum: link key -> boolean array of num_slots
    last,       \* the most recent call: its name, arguments and return value
    pre,        \* Network.spectrum as it was when the most recent call began
    nops,       \* number of calls made so far
    assigned,   \* the assignments the heuristics have returned, in call order
    solution,   \* the Solution object (None before one is constructed)
    clone,      \* the Solution that solution.copy() returned (None before)
    opt         \* the running optimizer: its local variables (None before)

vars == <<impl, spectrum, last, pre, nops, assigned, solution, clone, opt>>

(***************************************************************************)
(* Bounds of the model.                                                    *)
(***************************************************************************)
\* Network(topology, num_slots): the grid width the object is built with
NumSlots == 8
\* calls made on one Network object in one behaviour
MaxOps == 3
\* demands of a Solution
NumDemands == 3

\* Python's None, and a present value, as a sequence of at most one element
None == <<>>
Some(x) == <<x>>
Val(o) == o[1]

Max2(a, b) == IF a >= b THEN a ELSE b

(***************************************************************************)
(* The topology handed to Network(topology, num_slots): a triangle 0-1-2,  *)
(* a long tail link 2-3 that no modulation format reaches, and an isolated *)
(* node 4.  All simple paths between two nodes have distinct lengths, so   *)
(* the ranking by distance is unique.                                      *)
(***************************************************************************)
Nodes == 0..4

\* the edges, as (u, v) in the orientation topology.edges() yields them
Edges == { <<0, 1>>, <<1, 2>>, <<0, 2>>, <<2, 3>> }

EdgeDistance == (<<0, 1>> :> 200) @@ (<<1, 2>> :> 250) @@ (<<0, 2>> :> 600)
                @@ (<<2, 3>> :> 12000)

HasEdge(u, v) == <<u, v>> \in Edges \/ <<v, u>> \in Edges

\* G[u][v]['distance'] of an undirected graph
Dist(u, v) == IF <<u, v>> \in Edges THEN EdgeDistance[<<u, v>>]
              ELSE EdgeDistance[<<v, u>>]

\* data/nsfnet.py, version_final/topology.py: sum of the link distances
get_path_distance(path) ==
    LET total[i \in 1..Len(path)] ==
            IF i = Len(path) THEN 0
            ELSE Dist(path[i], path[i + 1]) + total[i + 1]
    IN  IF Len(path) = 0 THEN 0 ELSE total[1]

\* every simple path of the topology with at least one link
SimplePaths ==
    { p \in UNION { [1..n -> Nodes] : n \in 2..Cardinality(Nodes) } :
        /\ \A i, j \in 1..Len(p) : i # j => p[i] # p[j]
        /\ \A i \in 1..(Len(p) - 1) : HasEdge(p[i], p[i + 1]) }

\* the paths of S by ascending distance (the distances are distinct)
RankByDistance(S) ==
    <<>> @@ [i \in 1..Cardinality(S) |->
        CHOOSE p \in S :
            Cardinality({ q \in S :
                get_path_distance(q) < get_path_distance(p) }) = i - 1]

\* nx.shortest_simple_paths(graph, source, target, weight='distance'):
\* the simple paths from source to target by ascending distance
\* (@@ makes the table explicit, so that it is computed once)
RankedPaths ==
    <<>> @@ [st \in Nodes \X Nodes |->
        RankByDistance({ p \in SimplePaths :
                            p[1] = st[1] /\ p[Len(p)] = st[2] })]

Prefix(s, k) == SubSeq(s, 1, IF Len(s) < k THEN Len(s) ELSE k)

(***************************************************************************)
(* src/src/core/routing.py                                                 *)
(***************************************************************************)
get_k_shortest_paths(source, target, k) ==
    IF source = target THEN << <<source>> >>
    ELSE Prefix(RankedPaths[<<source, target>>], k)

\* nx.shortest_path; [source] when source = target, None on NetworkXNoPath
get_shortest_path(source, target) ==
    IF source = target THEN <<source>>
    ELSE IF RankedPaths[<<source, target>>] = <<>> THEN None
    ELSE RankedPaths[<<source, target>>][1]

(***************************************************************************)
(* data/modulation.py                                                      *)
(***************************************************************************)
\* (name, max_reach_km, bits_per_symbol, slots_per_100Gbps)
MODULATION_FORMATS ==
    << [name |-> "16-QAM", max_reach |-> 500,  slots_per_100gbps |-> 2],
       [name |-> "8-QAM",  max_reach |-> 1000, slots_per_100gbps |-> 3],
       [name |-> "QPSK",   max_reach |-> 2000, slots_per_100gbps |-> 4],
       [name |-> "BPSK",   max_reach |-> 4000, slots_per_100gbps |-> 8] >>

\* the first entry of table whose reach covers the distance, or None
FirstReaching(table, distance_km) ==
    LET hits == { i \in 1..Len(table) : distance_km <= table[i].max_reach }
    IN  IF hits = {} THEN None
        ELSE Some(table[CHOOSE i \in hits : \A j \in hits : i <= j])

\* the entry of longest reach, whatever the distance
get_modulation_format_most_robust(distance_km) ==
    Some(MODULATION_FORMATS[Len(MODULATION_FORMATS)])

get_modulation_format(distance_km) ==
    FirstReaching(MODULATION_FORMATS, distance_km)

\* math.ceil(a / b) for an integer a and a positive integer b
CeilDiv(a, b) == -((-a) \div b)

\* ceil(bandwidth / 100) * slots_per_100gbps, plus one guard slot per side
calculate_required_slots(bandwidth_gbps, distance_km) ==
    LET modulation == get_modulation_format(distance_km)
    IN  IF modulation = None THEN None
        ELSE Some(CeilDiv(bandwidth_gbps, 100)
                    * Val(modulation).slots_per_100gbps + 2)

(***************************************************************************)
(* src/src/core/network.py: class Network                                  *)
(***************************************************************************)
Min2(a, b) == IF a <= b THEN a ELSE b

_get_link_key(u, v) == <<Min2(u, v), Max2(u, v)>>

Slots == 0..(NumSlots - 1)

\* Network.__init__: one all-free boolean array per edge, keyed (min, max)
NetworkInit ==
    [link \in { _get_link_key(e[1], e[2]) : e \in Edges } |->
        [s \in Slots |-> FALSE]]

\* the link keys a path walks, range(len(path) - 1)
PathLinks(path) ==
    { _get_link_key(path[i], path[i + 1]) : i \in 1..(Len(path) - 1) }

\* a slice bound as Python reads it: counted from the end when negative,
\* clamped to the array
SliceBound(i) ==
    IF i < 0 THEN Max2(i + NumSlots, 0) ELSE Min2(i, NumSlots)

\* the indices a slice [start_slot:end_slot] of a num_slots array selects
Slice(start_slot, end_slot) ==
    { s \in Slots : SliceBound(start_slot) <= s /\ s < SliceBound(end_slot) }

\* is_spectrum_available looking at the first link of the path only
is_spectrum_available_first_link(g, path, start_slot, num_slots) ==
    LET end_slot == start_slot + num_slots
    IN  IF end_slot > NumSlots THEN FALSE
        ELSE \A i \in 1..Min2(1, Len(path) - 1) :
                \A s \in Slice(start_slot, end_slot) :
                    ~g[_get_link_key(path[i], path[i + 1])][s]

\* is_spectrum_available looking up (u, v) as traversed, and passing over
\* the links it walks from the higher node to the lower
is_spectrum_available_as_traversed(g, path, start_slot, num_slots) ==
    LET end_slot == start_slot + num_slots
    IN  IF end_slot > NumSlots THEN FALSE
        ELSE \A i \in 1..(Len(path) - 1) :
                <<path[i], path[i + 1]>> \in DOMAIN g =>
                    \A s \in Slice(start_slot, end_slot) :
                        ~g[<<path[i], path[i + 1]>>][s]

is_spectrum_available(g, path, start_slot, num_slots) ==
    LET end_slot == start_slot + num_slots
    IN  IF end_slot > NumSlots THEN FALSE
        ELSE \A i \in 1..(Len(path) - 1) :
                \A s \in Slice(start_slot, end_slot) :
                    ~g[_get_link_key(path[i], path[i + 1])][s]

\* the grid with the slice set to value on every link of the path
SetRange(g, links, start_slot, end_slot, value) ==
    [link \in DOMAIN g |->
        IF link \in links
        THEN [s \in Slots |->
                IF s \in Slice(start_slot, end_slot) THEN value
                ELSE g[link][s]]
        ELSE g[link]]

\* allocate_spectrum without its availability check (network.py 83-84 dropped)
allocate_spectrum_unchecked(g, path, start_slot, num_slots) ==
    [ret |-> TRUE,
     grid |-> SetRange(g, PathLinks(path), start_slot,
                       start_slot + num_slots, TRUE)]

\* returns the success flag and the grid the call leaves behind
allocate_spectrum(g, path, start_slot, num_slots) ==
    IF ~is_spectrum_available(g, path, start_slot, num_slots)
    THEN [ret |-> FALSE, grid |-> g]
    ELSE [ret |-> TRUE,
          grid |-> SetRange(g, PathLinks(path), start_slot,
                            start_slot + num_slots, TRUE)]

\* deallocate_spectrum clearing the first link of the path only
deallocate_spectrum_first_link(g, path, start_slot, num_slots) ==
    SetRange(g, { _get_link_key(path[i], path[i + 1]) :
                    i \in 1..Min2(1, Len(path) - 1) },
             start_slot, start_slot + num_slots, FALSE)

deallocate_spectrum(g, path, start_slot, num_slots) ==
    SetRange(g, PathLinks(path), start_slot, start_slot + num_slots, FALSE)

\* np.where(slots)[0]: the occupied indices of one link
Occupied(g, link) == { s \in DOMAIN g[link] : g[link][s] }

SetMax(S) == CHOOSE x \in S : \A y \in S : y <= x

SetMin(S) == CHOOSE x \in S : \A y \in S : x <= y

\* get_max_watermark reading occupied_indices[0] instead of [-1]
get_max_watermark_lowest(g) ==
    LET marks == { SetMin(Occupied(g, link)) + 1 :
                     link \in { l \in DOMAIN g : Occupied(g, l) # {} } }
    IN  IF marks = {} THEN 0 ELSE SetMax(marks)

get_max_watermark(g) ==
    LET marks == { SetMax(Occupied(g, link)) + 1 :
                     link \in { l \in DOMAIN g : Occupied(g, l) # {} } }
    IN  IF marks = {} THEN 0 ELSE SetMax(marks)

reset(g) == [link \in DOMAIN g |-> [s \in DOMAIN g[link] |-> FALSE]]

(***************************************************************************)
(* src/src/core/spectrum.py                                                *)
(***************************************************************************)
\* first_fit scanning range(network.num_slots - num_slots): last start missed
first_fit_short_scan(g, path, num_slots) ==
    LET fits == { s \in 0..(NumSlots - num_slots - 1) :
                    is_spectrum_available(g, path, s, num_slots) }
    IN  IF fits = {} THEN None
        ELSE Some(CHOOSE s \in fits : \A t \in fits : s <= t)

\* for start_slot in range(network.num_slots - num_slots + 1)
first_fit(g, path, num_slots) ==
    LET fits == { s \in 0..(NumSlots - num_slots) :
                    is_spectrum_available(g, path, s, num_slots) }
    IN  IF fits = {} THEN None
        ELSE Some(CHOOSE s \in fits : \A t \in fits : s <= t)

\* what class Network defines (network.py 16-168); any other attribute
\* looked up on a Network object raises AttributeError
NetworkAttributes ==
    { "topology", "num_slots", "spectrum", "_get_link_key",
      "is_spectrum_available", "allocate_spectrum", "deallocate_spectrum",
      "get_max_watermark", "get_link_watermark", "get_spectrum_utilization",
      "reset" }

NoException == "none"
AttributeError == "AttributeError"

\* calculate_watermark_increment reading the current maximum before it
\* looks at what first_fit returned
calculate_watermark_increment_eager(g, path, num_slots) ==
    LET start_slot == first_fit(g, path, num_slots)
    IN  IF "get_max_slot_used" \notin NetworkAttributes
        THEN [exc |-> AttributeError, ret |-> None]
        ELSE IF start_slot = None
        THEN [exc |-> NoException, ret |-> None]
        ELSE [exc |-> NoException,
              ret |-> Some(Max2(get_max_watermark(g),
                                Val(start_slot) + num_slots))]

\* returns [exc, ret]: ret is the resulting watermark, or None when the
\* path has no free block; exc is the exception that left the call
calculate_watermark_increment(g, path, num_slots) ==
    LET start_slot == first_fit(g, path, num_slots)
    IN  IF start_slot = None
        THEN [exc |-> NoException, ret |-> None]
        ELSE IF "get_max_slot_used" \notin NetworkAttributes
        THEN [exc |-> AttributeError, ret |-> None]
        ELSE [exc |-> NoException,
              ret |-> Some(Max2(get_max_watermark(g),
                                Val(start_slot) + num_slots))]

(***************************************************************************)
(* Demands: {source, destination, bandwidth}                               *)
(***************************************************************************)
Bandwidths == {100, 200, 300}

\* the (source, destination) pairs of the demands: around the triangle in
\* both directions, over the unreachable tail, and to the isolated node
DemandPairs == { <<0, 1>>, <<1, 0>>, <<1, 2>>, <<0, 2>>, <<0, 3>>, <<0, 4>> }

Demands ==
    { d \in [source : Nodes, destination : Nodes, bandwidth : Bandwidths] :
        <<d.source, d.destination>> \in DemandPairs }

\* the record a heuristic returns for a placed demand
Assignment(path, start_slot, num_slots) ==
    [path |-> path, start_slot |-> start_slot, num_slots |-> num_slots]

Blocked(g) == [exc |-> NoException, ret |-> None, grid |-> g]

(***************************************************************************)
(* src/src/algorithms/sp_ff.py                                             *)
(***************************************************************************)
\* returns [exc, ret, grid]: ret is the assignment or None (blocked)
sp_ff_assign(g, demand) ==
    LET path == get_shortest_path(demand.source, demand.destination)
    IN  IF path = None THEN Blocked(g)
        ELSE
        LET distance == get_path_distance(path)
            num_slots == calculate_required_slots(demand.bandwidth, distance)
        IN  IF num_slots = None THEN Blocked(g)
            ELSE
            LET start_slot == first_fit(g, path, Val(num_slots))
            IN  IF start_slot = None THEN Blocked(g)
                ELSE
                LET done == allocate_spectrum(g, path, Val(start_slot),
                                              Val(num_slots))
                IN  IF ~done.ret THEN Blocked(g)
                    ELSE [exc |-> NoException,
                          ret |-> Some(Assignment(path, Val(start_slot),
                                                  Val(num_slots))),
                          grid |-> done.grid]

(***************************************************************************)
(* src/src/algorithms/ksp_mw.py                                            *)
(***************************************************************************)
\* float('inf') is None here: every watermark is below it
BelowBest(new_watermark, best_watermark) ==
    best_watermark = None \/ new_watermark < Val(best_watermark)

\* the loop over the candidate paths (ksp_mw.py 62-88), from paths[i] on
RECURSIVE EvaluatePaths(_, _, _, _, _)
EvaluatePaths(g, paths, i, bandwidth, best) ==
    IF i > Len(paths) THEN best
    ELSE
    LET path == paths[i]
        distance == get_path_distance(path)
        num_slots == calculate_required_slots(bandwidth, distance)
    IN  IF num_slots = None
        THEN EvaluatePaths(g, paths, i + 1, bandwidth, best)
        ELSE
        LET new_watermark ==
                calculate_watermark_increment(g, path, Val(num_slots))
        IN  IF new_watermark.exc # NoException
            THEN [best EXCEPT !.exc = new_watermark.exc]
            ELSE IF new_watermark.ret = None
            THEN EvaluatePaths(g, paths, i + 1, bandwidth, best)
            ELSE IF BelowBest(Val(new_watermark.ret), best.best_watermark)
            THEN EvaluatePaths(g, paths, i + 1, bandwidth,
                    [exc |-> NoException,
                     best_watermark |-> new_watermark.ret,
                     best_path |-> path,
                     best_num_slots |-> num_slots])
            ELSE EvaluatePaths(g, paths, i + 1, bandwidth, best)

\* the k of ksp_mw_assign(network, demand, k=3)
K_PATHS == 3

ksp_mw_assign(g, demand, k) ==
    LET paths == get_k_shortest_paths(demand.source, demand.destination, k)
    IN  IF paths = <<>> THEN Blocked(g)
        ELSE
        LET best == EvaluatePaths(g, paths, 1, demand.bandwidth,
                        [exc |-> NoException, best_watermark |-> None,
                         best_path |-> None, best_num_slots |-> None])
        IN  IF best.exc # NoException
            THEN [exc |-> best.exc, ret |-> None, grid |-> g]
            ELSE IF best.best_path = None THEN Blocked(g)
            ELSE
            LET best_start_slot ==
                    first_fit(g, best.best_path, Val(best.best_num_slots))
            IN  IF best_start_slot = None THEN Blocked(g)
                ELSE
                LET done == allocate_spectrum(g, best.best_path,
                                Val(best_start_slot),
                                Val(best.best_num_slots))
                IN  IF ~done.ret THEN Blocked(g)
                    ELSE [exc |-> NoException,
                          ret |-> Some(Assignment(best.best_path,
                                        Val(best_start_slot),
                                        Val(best.best_num_slots))),
                          grid |-> done.grid]

(***************************************************************************)
(* src/version_final/core.py                                               *)
(***************************************************************************)
vf_MODULATION_FORMATS ==
    << [name |-> "16-QAM", max_reach |-> 500,   slots_per_100gbps |-> 2],
       [name |-> "8-QAM",  max_reach |-> 1000,  slots_per_100gbps |-> 3],
       [name |-> "QPSK",   max_reach |-> 2000,  slots_per_100gbps |-> 4],
       [name |-> "BPSK",   max_reach |-> 10000, slots_per_100gbps |-> 8] >>

get_modulation_params(distance_km) ==
    FirstReaching(vf_MODULATION_FORMATS, distance_km)

\* ceil(bandwidth / (100 / slots_per_100g)); no guard band
calculate_slots(bandwidth_gbps, distance_km) ==
    LET mod == get_modulation_params(distance_km)
    IN  IF mod = None THEN None
        ELSE Some(CeilDiv(bandwidth_gbps * Val(mod).slots_per_100gbps, 100))

\* Network.__init__: one array for (u, v) and another for (v, u)
vf_NetworkInit ==
    [link \in Edges \cup { <<e[2], e[1]>> : e \in Edges } |->
        [s \in Slots |-> FALSE]]

\* the keys (u, v) a path reads and writes, in its own direction only
vf_PathLinks(path) ==
    { <<path[i], path[i + 1]>> : i \in 1..(Len(path) - 1) }

is_path_free(g, path, start_slot, num_slots) ==
    IF start_slot + num_slots > NumSlots THEN FALSE
    ELSE \A i \in 1..(Len(path) - 1) :
            \A s \in Slice(start_slot, start_slot + num_slots) :
                ~g[<<path[i], path[i + 1]>>][s]

find_first_fit(g, path, num_slots) ==
    LET fits == { i \in 0..(NumSlots - num_slots) :
                    is_path_free(g, path, i, num_slots) }
    IN  IF fits = {} THEN None
        ELSE Some(CHOOSE i \in fits : \A j \in fits : i <= j)

\* marks the slice on every (u, v) of the path; checks nothing, returns None
allocate(g, path, start_slot, num_slots) ==
    SetRange(g, vf_PathLinks(path), start_slot, start_slot + num_slots, TRUE)

vf_reset(g) == [key \in DOMAIN g |-> [s \in DOMAIN g[key] |-> FALSE]]

\* the highest occupied index of any array, -1 when nothing is occupied
get_max_slot_used(g) ==
    LET tops == { SetMax(Occupied(g, link)) :
                    link \in { l \in DOMAIN g : Occupied(g, l) # {} } }
    IN  IF tops = {} THEN -1 ELSE SetMax(tops)

(***************************************************************************)
(* src/version_final/topology.py                                           *)
(***************************************************************************)
\* up to k paths of nx.shortest_simple_paths; [] on NetworkXNoPath
vf_get_k_shortest_paths(source, target, k) ==
    IF source = target THEN << <<source>> >>
    ELSE Prefix(RankedPaths[<<source, target>>], k)

(***************************************************************************)
(* src/algorithms.py: run_sp_ff                                            *)
(***************************************************************************)
\* the loop over one demand's paths (algorithms.py 30-50), from paths[i] on
RECURSIVE TryPaths(_, _, _, _)
TryPaths(g, paths, i, bw) ==
    IF i > Len(paths) THEN [ret |-> None, grid |-> g]
    ELSE
    LET path == paths[i]
        dist == get_path_distance(path)
        slots_needed == calculate_slots(bw, dist)
    IN  IF slots_needed = None \/ Val(slots_needed) = 0
        THEN TryPaths(g, paths, i + 1, bw)
        ELSE
        LET start_slot == find_first_fit(g, path, Val(slots_needed))
        IN  IF start_slot = None THEN TryPaths(g, paths, i + 1, bw)
            ELSE [ret |-> Some(Assignment(path, Val(start_slot),
                                          Val(slots_needed))),
                  grid |-> allocate(g, path, Val(start_slot),
                                    Val(slots_needed))]

\* run_sp_ff's loop body giving up after the first path of the demand
run_sp_ff_demand_first_path(g, demand, k) ==
    TryPaths(g, Prefix(vf_get_k_shortest_paths(demand.source,
                                               demand.destination, k), 1),
             1, demand.bandwidth)

\* one pass of run_sp_ff's loop over the demands (algorithms.py 23-54)
run_sp_ff_demand(g, demand, k) ==
    TryPaths(g, vf_get_k_shortest_paths(demand.source, demand.destination, k),
             1, demand.bandwidth)

(***************************************************************************)
(* src/src/core/solution.py: class Solution                                *)
(***************************************************************************)
\* the Network object a Solution refers to: its topology is the one above
TheNetwork == [num_slots |-> NumSlots]

\* the demands list handed to Solution(network, demands)
SolDemands ==
    [i \in 1..NumDemands |->
        [source |-> 0, destination |-> 2, bandwidth |-> 100]]

\* class Assignment (solution.py 13-45)
SolAssignment(demand_id, path, start_slot, num_slots) ==
    [demand_id |-> demand_id, path |-> path, start_slot |-> start_slot,
     num_slots |-> num_slots]

\* Solution.__init__: nothing assigned, nothing cached
SolutionInit(network, demands) ==
    [network |-> network,
     demands |-> demands,
     assignments |-> [i \in 1..Len(demands) |-> None],
     _fitness |-> None, _is_valid |-> None]

\* set_assignment without the invalidation of the cached fitness
set_assignment_keep_cache(sol, demand_index, assignment) ==
    [sol EXCEPT !.assignments[demand_index + 1] = assignment]

\* demand_index counts from 0
set_assignment(sol, demand_index, assignment) ==
    [sol EXCEPT !.assignments[demand_index + 1] = assignment,
                !._fitness = None, !._is_valid = None]

\* the error messages of validate, by what they report
PathTooShort(idx, path) ==
    [kind |-> "path too short", idx |-> idx, path |-> path]
NotConnecting(idx, path) ==
    [kind |-> "does not connect", idx |-> idx, path |-> path]
OutOfBounds(idx, start_slot, end_slot) ==
    [kind |-> "out of bounds", idx |-> idx, start_slot |-> start_slot,
     end_slot |-> end_slot]
NoSuchLink(idx, link_key) ==
    [kind |-> "link does not exist", idx |-> idx, link |-> link_key]
SpectrumConflict(idx, link_key, slot, conflicting) ==
    [kind |-> "spectrum conflict", idx |-> idx, link |-> link_key,
     slot |-> slot, conflicting |-> conflicting]

\* the loop over the slots of one link (solution.py 152-162), from slot to
\* end_slot - 1; st holds spectrum_map and errors.  The loop visits each
\* slot once, so what it does at a slot depends only on the map before the
\* loop: a slot already taken adds a conflict (in slot order), a free one
\* gets idx.
ValidateSlots(st, idx, link_key, slot, end_slot) ==
    LET row == st.spectrum_map[link_key]
        taken == { s \in slot..(end_slot - 1) : row[s] # <<>> }
        nth(k) == CHOOSE s \in taken :
                    Cardinality({ x \in taken : x < s }) = k - 1
        conflicts == [k \in 1..Cardinality(taken) |->
                        SpectrumConflict(idx, link_key, nth(k), row[nth(k)])]
    IN  [spectrum_map |->
            [st.spectrum_map EXCEPT ![link_key] =
                [s \in DOMAIN row |->
                    IF s \in slot..(end_slot - 1) /\ row[s] = <<>>
                    THEN Append(row[s], idx) ELSE row[s]]],
         errors |-> st.errors \o conflicts]

\* the loop over the links of one path (solution.py 142-162), from link i on
RECURSIVE ValidateLinks(_, _, _, _)
ValidateLinks(st, idx, assignment, i) ==
    IF i > Len(assignment.path) - 1 THEN st
    ELSE
    LET link_key == _get_link_key(assignment.path[i], assignment.path[i + 1])
    IN  IF link_key \notin DOMAIN st.spectrum_map
        THEN ValidateLinks(
                [st EXCEPT !.errors = Append(@, NoSuchLink(idx, link_key))],
                idx, assignment, i + 1)
        ELSE ValidateLinks(
                ValidateSlots(st, idx, link_key, assignment.start_slot,
                              assignment.start_slot + assignment.num_slots),
                idx, assignment, i + 1)

\* the loop over the assignments (solution.py 116-162), from index idx on
RECURSIVE ValidateFrom(_, _, _)
ValidateFrom(st, sol, idx) ==
    IF idx >= Len(sol.assignments) THEN st
    ELSE IF sol.assignments[idx + 1] = None
    THEN ValidateFrom(st, sol, idx + 1)
    ELSE
    LET assignment == Val(sol.assignments[idx + 1])
        demand == sol.demands[idx + 1]
        end_slot == assignment.start_slot + assignment.num_slots
    IN  IF Len(assignment.path) < 2
        THEN ValidateFrom(
                [st EXCEPT !.errors =
                    Append(@, PathTooShort(idx, assignment.path))],
                sol, idx + 1)
        ELSE
        LET st1 == IF \/ assignment.path[1] # demand.source
                      \/ assignment.path[Len(assignment.path)]
                            # demand.destination
                   THEN [st EXCEPT !.errors =
                            Append(@, NotConnecting(idx, assignment.path))]
                   ELSE st
        IN  IF assignment.start_slot < 0 \/ end_slot > sol.network.num_slots
            THEN ValidateFrom(
                    [st1 EXCEPT !.errors =
                        Append(@, OutOfBounds(idx, assignment.start_slot,
                                              end_slot))],
                    sol, idx + 1)
            ELSE ValidateFrom(ValidateLinks(st1, idx, assignment, 1),
                              sol, idx + 1)

\* returns (is_valid, errors); the caller stores is_valid in _is_valid
validate(sol) ==
    LET st == ValidateFrom(
                [spectrum_map |-> [link \in DOMAIN NetworkInit |->
                                    [s \in 0..(sol.network.num_slots - 1)
                                        |-> <<>>]],
                 errors |-> <<>>],
                sol, 0)
    IN  [is_valid |-> st.errors = <<>>, errors |-> st.errors]

\* float('inf'), and the finite values a fitness takes
Inf == [inf |-> TRUE, value |-> 0]
Finite(n) == [inf |-> FALSE, value |-> n]

\* a - n for a float a and an integer n: float('inf') - n is float('inf')
FloatMinus(a, n) == IF a.inf THEN Inf ELSE Finite(a.value - n)

\* a < b on floats
FloatLess(a, b) == ~a.inf /\ (b.inf \/ a.value < b.value)

get_assigned_count(sol) ==
    Cardinality({ i \in 1..Len(sol.assignments) : sol.assignments[i] # None })

is_complete(sol) ==
    \A i \in 1..Len(sol.assignments) : sol.assignments[i] # None

\* the weight of max_slot in the fitness (solution.py 210)
MAX_SLOT_WEIGHT == 1000

\* the loop of calculate_fitness (solution.py 198-206), from assignment i on
RECURSIVE FitnessTerms(_, _, _)
FitnessTerms(sol, i, acc) ==
    IF i > Len(sol.assignments) THEN acc
    ELSE IF sol.assignments[i] = None THEN FitnessTerms(sol, i + 1, acc)
    ELSE
    LET assignment == Val(sol.assignments[i])
        path_length == Len(assignment.path) - 1
    IN  FitnessTerms(sol, i + 1,
            [max_slot |-> Max2(acc.max_slot,
                               assignment.start_slot + assignment.num_slots),
             total_spectrum |-> acc.total_spectrum
                                + assignment.num_slots * path_length])

\* calculate_fitness with max_slot given the same weight as a slot of
\* consumption
calculate_fitness_unweighted(sol) ==
    IF sol._fitness # None THEN [ret |-> Val(sol._fitness), sol |-> sol]
    ELSE
    LET is_valid == validate(sol).is_valid
        validated == [sol EXCEPT !._is_valid = Some(is_valid)]
        unassigned_count == Len(sol.demands) - get_assigned_count(sol)
        terms == FitnessTerms(sol, 1, [max_slot |-> 0, total_spectrum |-> 0])
        fitness ==
            IF ~is_valid THEN Inf
            ELSE IF unassigned_count > 0
            THEN FloatMinus(Inf, Len(sol.demands) - unassigned_count)
            ELSE Finite(terms.max_slot + terms.total_spectrum)
    IN  [ret |-> fitness,
         sol |-> [validated EXCEPT !._fitness = Some(fitness)]]

\* calculate_fitness with a finite penalty per unassigned demand in place
\* of the infinite one
calculate_fitness_graded(sol) ==
    IF sol._fitness # None THEN [ret |-> Val(sol._fitness), sol |-> sol]
    ELSE
    LET is_valid == validate(sol).is_valid
        validated == [sol EXCEPT !._is_valid = Some(is_valid)]
        unassigned_count == Len(sol.demands) - get_assigned_count(sol)
        terms == FitnessTerms(sol, 1, [max_slot |-> 0, total_spectrum |-> 0])
        fitness ==
            IF ~is_valid THEN Inf
            ELSE Finite((unassigned_count * NumSlots + terms.max_slot)
                            * MAX_SLOT_WEIGHT + terms.total_spectrum)
    IN  [ret |-> fitness,
         sol |-> [validated EXCEPT !._fitness = Some(fitness)]]

\* returns the fitness and the Solution with what the call cached in it
calculate_fitness(sol) ==
    IF sol._fitness # None THEN [ret |-> Val(sol._fitness), sol |-> sol]
    ELSE
    LET is_valid == validate(sol).is_valid
        validated == [sol EXCEPT !._is_valid = Some(is_valid)]
        unassigned_count == Len(sol.demands) - get_assigned_count(sol)
        terms == FitnessTerms(sol, 1, [max_slot |-> 0, total_spectrum |-> 0])
        fitness ==
            IF ~is_valid THEN Inf
            ELSE IF unassigned_count > 0
            THEN FloatMinus(Inf, Len(sol.demands) - unassigned_count)
            ELSE Finite(terms.max_slot * MAX_SLOT_WEIGHT
                        + terms.total_spectrum)
    IN  [ret |-> fitness,
         sol |-> [validated EXCEPT !._fitness = Some(fitness)]]

\* Solution.copy: a new Solution with copies of the assignments, no cache
copy(sol) ==
    [network |-> sol.network, demands |-> sol.demands,
     assignments |-> sol.assignments,
     _fitness |-> None, _is_valid |-> None]

(***************************************************************************)
(* The Network object driven through its methods.                          *)
(***************************************************************************)
\* the arguments the methods are called with
RawPaths == { <<0, 1>>, <<1, 0, 2>> }
\* ranges that overlap partly ([0,2) and [1,3)), touch, or leave the grid
RawStarts == {0, 1, NumSlots - 1}
RawCounts == {1, 2}
\* first-fit widths: small, the whole grid, and one wider than the grid
FitCounts == RawCounts \cup {NumSlots, NumSlots + 1}

Constructed == [op |-> "__init__"]

InitNet ==
    /\ impl \in {"core", "final"}
    /\ spectrum = IF impl = "core" THEN NetworkInit ELSE vf_NetworkInit
    /\ pre = spectrum
    /\ last = Constructed
    /\ nops = 0
    /\ assigned = <<>>
    /\ solution = None
    /\ clone = None
    /\ opt = None

\* a call that reads the grid and returns ret
Query(op, path, start_slot, num_slots, ret) ==
    /\ last' = [op |-> op, path |-> path, start_slot |-> start_slot,
                num_slots |-> num_slots, ret |-> ret]
    /\ pre' = spectrum
    /\ nops' = nops + 1
    /\ UNCHANGED <<impl, spectrum, assigned, solution, clone, opt>>

Call_is_spectrum_available ==
    /\ impl = "core" /\ nops < MaxOps
    /\ \E path \in RawPaths, start_slot \in RawStarts, num_slots \in RawCounts :
        Query("is_spectrum_available", path, start_slot, num_slots,
              is_spectrum_available(spectrum, path, start_slot, num_slots))

Call_allocate_spectrum ==
    /\ impl = "core" /\ nops < MaxOps
    /\ \E path \in RawPaths, start_slot \in RawStarts, num_slots \in RawCounts :
        LET done == allocate_spectrum(spectrum, path, start_slot, num_slots)
        IN  /\ spectrum' = done.grid
            /\ last' = [op |-> "allocate_spectrum", path |-> path,
                        start_slot |-> start_slot, num_slots |-> num_slots,
                        ret |-> done.ret]
            /\ pre' = spectrum
            /\ nops' = nops + 1
            /\ UNCHANGED <<impl, assigned, solution, clone, opt>>

\* after_allocate: the call before this one was allocate_spectrum with the
\* same arguments; allocated, before: what it returned, the grid it found
Call_deallocate_spectrum ==
    /\ impl = "core" /\ nops < MaxOps
    /\ \E path \in RawPaths, start_slot \in RawStarts, num_slots \in RawCounts :
        LET after_allocate ==
                /\ last.op = "allocate_spectrum"
                /\ last.path = path
                /\ last.start_slot = start_slot
                /\ last.num_slots = num_slots
        IN  /\ spectrum' = deallocate_spectrum(spectrum, path, start_slot,
                                               num_slots)
            /\ last' = [op |-> "deallocate_spectrum", path |-> path,
                        start_slot |-> start_slot, num_slots |-> num_slots,
                        after_allocate |-> after_allocate,
                        allocated |-> after_allocate /\ last.ret,
                        before |-> IF after_allocate THEN pre ELSE spectrum]
            /\ pre' = spectrum
            /\ nops' = nops + 1
            /\ UNCHANGED <<impl, assigned, solution, clone, opt>>

Call_get_max_watermark ==
    /\ impl = "core" /\ nops < MaxOps
    /\ last' = [op |-> "get_max_watermark",
                ret |-> get_max_watermark(spectrum)]
    /\ pre' = spectrum
    /\ nops' = nops + 1
    /\ UNCHANGED <<impl, spectrum, assigned, solution, clone, opt>>

Call_reset ==
    /\ impl = "core" /\ nops < MaxOps
    /\ spectrum' = reset(spectrum)
    /\ last' = [op |-> "reset"]
    /\ pre' = spectrum
    /\ nops' = nops + 1
    /\ UNCHANGED <<impl, assigned, solution, clone, opt>>

Call_first_fit ==
    /\ impl = "core" /\ nops < MaxOps
    /\ \E path \in RawPaths, num_slots \in FitCounts :
        Query("first_fit", path, 0, num_slots,
              first_fit(spectrum, path, num_slots))

Call_is_path_free ==
    /\ impl = "final" /\ nops < MaxOps
    /\ \E path \in RawPaths, start_slot \in RawStarts, num_slots \in RawCounts :
        Query("is_path_free", path, start_slot, num_slots,
              is_path_free(spectrum, path, start_slot, num_slots))

Call_find_first_fit ==
    /\ impl = "final" /\ nops < MaxOps
    /\ \E path \in RawPaths, num_slots \in FitCounts :
        Query("find_first_fit", path, 0, num_slots,
              find_first_fit(spectrum, path, num_slots))

\* free: what is_path_free answers for the same arguments as the call begins
Call_allocate ==
    /\ impl = "final" /\ nops < MaxOps
    /\ \E path \in RawPaths, start_slot \in RawStarts, num_slots \in RawCounts :
        /\ spectrum' = allocate(spectrum, path, start_slot, num_slots)
        /\ last' = [op |-> "allocate", path |-> path,
                    start_slot |-> start_slot, num_slots |-> num_slots,
                    ret |-> None,
                    free |-> is_path_free(spectrum, path, start_slot,
                                          num_slots)]
        /\ pre' = spectrum
        /\ nops' = nops + 1
        /\ UNCHANGED <<impl, assigned, solution, clone, opt>>

Call_get_max_slot_used ==
    /\ impl = "final" /\ nops < MaxOps
    /\ last' = [op |-> "get_max_slot_used",
                ret |-> get_max_slot_used(spectrum)]
    /\ pre' = spectrum
    /\ nops' = nops + 1
    /\ UNCHANGED <<impl, spectrum, assigned, solution, clone, opt>>

Call_vf_reset ==
    /\ impl = "final" /\ nops < MaxOps
    /\ spectrum' = vf_reset(spectrum)
    /\ last' = [op |-> "reset"]
    /\ pre' = spectrum
    /\ nops' = nops + 1
    /\ UNCHANGED <<impl, assigned, solution, clone, opt>>

NextNet ==
    \/ Call_is_spectrum_available
    \/ Call_allocate_spectrum
    \/ Call_deallocate_spectrum
    \/ Call_get_max_watermark
    \/ Call_reset
    \/ Call_first_fit
    \/ Call_is_path_free
    \/ Call_find_first_fit
    \/ Call_allocate
    \/ Call_get_max_slot_used
    \/ Call_vf_reset

SpecNet == InitNet /\ [][NextNet]_vars

(***************************************************************************)
(* Properties of the Network methods (SpecNet).                            *)
(***************************************************************************)
\* the slots [start, start + count) as a predicate on a slot index
InRange(s, start_slot, num_slots) ==
    start_slot <= s /\ s < start_slot + num_slots

\* after differs from before in exactly the slots of the range on exactly
\* the given links, and each of those went from free to occupied
ExactlyMarked(before, after, links, start_slot, num_slots) ==
    \A link \in DOMAIN before : \A s \in Slots :
        IF link \in links /\ InRange(s, start_slot, num_slots)
        THEN ~before[link][s] /\ after[link][s]
        ELSE after[link][s] = before[link][s]

Available(g, path, start_slot, num_slots) ==
    IF impl = "core"
    THEN is_spectrum_available(g, path, start_slot, num_slots)
    ELSE is_path_free(g, path, start_slot, num_slots)

\* C4: first_fit / find_first_fit return the smallest start at which the
\* range is available, None exactly when no start of the grid is available
\* (so whenever count exceeds the width), and never an unavailable start.
C4_FirstFitSmallest ==
    last.op \in {"first_fit", "find_first_fit"} =>
        LET starts == { s \in 0..NumSlots :
                          Available(spectrum, last.path, s, last.num_slots) }
        IN  /\ (last.ret = None) <=> (starts = {})
            /\ last.num_slots > NumSlots => last.ret = None
            /\ last.ret # None =>
                /\ Val(last.ret) \in starts
                /\ Val(last.ret) + last.num_slots <= NumSlots
                /\ \A s \in starts : Val(last.ret) <= s

\* C4 witness: slot 0 is taken on the path, and the scan returns a later
\* start
C4_Witness ==
    /\ last.op \in {"first_fit", "find_first_fit"}
    /\ last.ret # None
    /\ Val(last.ret) > 0
    /\ ~Available(spectrum, last.path, 0, last.num_slots)

\* C8 (as amended): deallocate_spectrum right after an allocate_spectrum
\* with the same arguments that returned true restores the grid the
\* allocate found.
C8_RoundTripAfterSuccess ==
    (last.op = "deallocate_spectrum" /\ last.after_allocate /\ last.allocated)
        => spectrum = last.before

\* C8 witness: a successful allocate on a grid already holding another
\* allocation, undone by the deallocate
C8_Witness ==
    /\ last.op = "deallocate_spectrum"
    /\ last.after_allocate /\ last.allocated
    /\ spectrum # pre
    /\ get_max_watermark(spectrum) > 0

\* C8 (as claimed): deallocate_spectrum right after allocate_spectrum with
\* the same arguments restores the grid, whatever the allocate returned.
C8_Original ==
    (last.op = "deallocate_spectrum" /\ last.after_allocate)
        => spectrum = last.before

\* highest occupied index over all links, plus one; 0 on an empty grid
HighestPlusOne(g) ==
    LET used == { s \in Slots : \E link \in DOMAIN g : g[link][s] }
    IN  IF used = {} THEN 0 ELSE SetMax(used) + 1

\* C9: the watermark query of either variant returns the highest occupied
\* slot index over all links plus one, and 0 on an empty grid.
C9_WatermarkQuery ==
    last.op \in {"get_max_watermark", "get_max_slot_used"}
        => last.ret = HighestPlusOne(spectrum)

\* C10: a successful allocate never lowers the value of the watermark
\* query (get_max_watermark, version_final's get_max_slot_used).
C10_WatermarkMonotone ==
    /\ (last.op = "allocate_spectrum" /\ last.ret)
        => get_max_watermark(spectrum) >= get_max_watermark(pre)
    /\ last.op = "allocate"
        => get_max_slot_used(spectrum) >= get_max_slot_used(pre)

\* C10 witness: a successful allocate_spectrum that lies wholly below the
\* watermark the grid already had
C10_Witness ==
    /\ last.op = "allocate_spectrum" /\ last.ret
    /\ last.start_slot + last.num_slots < get_max_watermark(pre)
    /\ get_max_watermark(spectrum) = get_max_watermark(pre)

(***************************************************************************)
(* The heuristics called demand after demand on one Network object.        *)
(***************************************************************************)
\* the k the callers pass
KChoices == {1, K_PATHS}

\* a heuristic call on a demand: the grid it leaves, what it returned
Assign(op, demand, k, result) ==
    /\ spectrum' = result.grid
    /\ last' = [op |-> op, demand |-> demand, k |-> k,
                exc |-> result.exc, ret |-> result.ret]
    /\ pre' = spectrum
    /\ nops' = nops + 1
    /\ assigned' = IF result.ret = None THEN assigned
                   ELSE Append(assigned, Val(result.ret))
    /\ UNCHANGED <<impl, solution, clone, opt>>

Call_sp_ff_assign ==
    /\ impl = "core" /\ nops < MaxOps
    /\ \E demand \in Demands :
        Assign("sp_ff_assign", demand, 1, sp_ff_assign(spectrum, demand))

Call_ksp_mw_assign ==
    /\ impl = "core" /\ nops < MaxOps
    /\ \E demand \in Demands, k \in KChoices :
        Assign("ksp_mw_assign", demand, k,
               ksp_mw_assign(spectrum, demand, k))

\* run_sp_ff on a demand list, one demand per step
Step_run_sp_ff ==
    /\ impl = "final" /\ nops < MaxOps
    /\ \E demand \in Demands, k \in KChoices :
        LET done == run_sp_ff_demand(spectrum, demand, k)
        IN  Assign("run_sp_ff", demand, k,
                   [exc |-> NoException, ret |-> done.ret,
                    grid |-> done.grid])

NextAssign ==
    \/ Call_sp_ff_assign
    \/ Call_ksp_mw_assign
    \/ Step_run_sp_ff

SpecAssign == InitNet /\ [][NextAssign]_vars

(***************************************************************************)
(* Properties of the heuristics.                                           *)
(***************************************************************************)
\* two assignments hold a common slot on a common link
Overlap(a, b) ==
    \E link \in PathLinks(a.path) \cap PathLinks(b.path) :
        \E s \in Slots : /\ InRange(s, a.start_slot, a.num_slots)
                         /\ InRange(s, b.start_slot, b.num_slots)

SlotCount(bandwidth, path) ==
    IF impl = "core"
    THEN calculate_required_slots(bandwidth, get_path_distance(path))
    ELSE calculate_slots(bandwidth, get_path_distance(path))

\* the starts at which the path has a free block of n slots
FreeStarts(g, path, n) ==
    { s \in 0..NumSlots : Available(g, path, s, n) }

\* a slot count can be computed and a free block of that size exists
CanServe(g, path, bandwidth) ==
    /\ SlotCount(bandwidth, path) # None
    /\ Val(SlotCount(bandwidth, path)) > 0
    /\ FreeStarts(g, path, Val(SlotCount(bandwidth, path))) # {}

\* the First-Fit placement of the demand on the path
FirstFitOn(g, path, bandwidth) ==
    LET n == Val(SlotCount(bandwidth, path))
    IN  Assignment(path, SetMin(FreeStarts(g, path, n)), n)

\* the resulting watermark of a feasible candidate:
\* max(current grid watermark, First-Fit start + slot count)
ResultingWatermark(g, path, bandwidth) ==
    LET a == FirstFitOn(g, path, bandwidth)
    IN  Max2(HighestPlusOne(g), a.start_slot + a.num_slots)

\* C5: ksp_mw_assign allocates on the first path, in candidate order, among
\* the feasible candidates that attain the minimum resulting watermark: when
\* some candidate is feasible the call returns the First-Fit assignment on
\* that path and marks exactly its range on the grid.
C5_MinWatermarkChoice ==
    last.op = "ksp_mw_assign" =>
        LET paths == get_k_shortest_paths(last.demand.source,
                                          last.demand.destination, last.k)
            bw == last.demand.bandwidth
            feasible == { i \in 1..Len(paths) : CanServe(pre, paths[i], bw) }
            W(i) == ResultingWatermark(pre, paths[i], bw)
        IN  feasible # {} =>
              LET chosen == CHOOSE i \in feasible :
                              \A j \in feasible :
                                /\ W(i) <= W(j)
                                /\ W(j) = W(i) => i <= j
                  a == FirstFitOn(pre, paths[chosen], bw)
              IN  /\ last.exc = NoException
                  /\ last.ret = Some(a)
                  /\ ExactlyMarked(pre, spectrum, PathLinks(a.path),
                                   a.start_slot, a.num_slots)

\* the last call returned the First-Fit placement on the first of the given
\* paths that can serve the demand, or blocked when none of them can
RankedRule(paths) ==
    LET bw == last.demand.bandwidth
        ok == { i \in 1..Len(paths) : CanServe(pre, paths[i], bw) }
    IN  IF ok = {} THEN last.ret = None /\ spectrum = pre
        ELSE last.ret = Some(FirstFitOn(pre, paths[SetMin(ok)], bw))

\* C6 (as amended): run_sp_ff tries the demand's k ranked paths in order and
\* assigns the first one with a slot count and a First-Fit block, blocking
\* only when every one of them fails; sp_ff_assign tries the shortest path
\* alone and blocks when that path fails, whatever the other paths hold.
C6_RankedCandidates ==
    /\ last.op = "run_sp_ff" =>
        RankedRule(vf_get_k_shortest_paths(last.demand.source,
                                           last.demand.destination, last.k))
    /\ last.op = "sp_ff_assign" =>
        RankedRule(Prefix(get_k_shortest_paths(last.demand.source,
                                last.demand.destination, K_PATHS), 1))

\* run_sp_ff placed a demand on a path ranked after its shortest one
C6_Witness ==
    /\ last.op = "run_sp_ff" /\ last.ret # None
    /\ Val(last.ret).path
        # get_shortest_path(last.demand.source, last.demand.destination)

\* C6 (as stated): both SP-FF procedures try the demand's ranked candidate
\* paths in order, and block only if every candidate path fails.
C6_Original ==
    /\ last.op = "run_sp_ff" =>
        RankedRule(vf_get_k_shortest_paths(last.demand.source,
                                           last.demand.destination, last.k))
    /\ last.op = "sp_ff_assign" =>
        RankedRule(get_k_shortest_paths(last.demand.source,
                                last.demand.destination, K_PATHS))

\* the paths the call considers for the demand
Candidates(op, demand, k) ==
    IF op = "sp_ff_assign"
    THEN Prefix(get_k_shortest_paths(demand.source, demand.destination, k), 1)
    ELSE get_k_shortest_paths(demand.source, demand.destination, k)

\* no candidate can serve the demand: there is none, or each is beyond every
\* modulation reach or has no free block of the required size
Unservable(g, paths, bandwidth) ==
    \A i \in 1..Len(paths) : ~CanServe(g, paths[i], bandwidth)

\* C7: sp_ff_assign and ksp_mw_assign do not raise for a demand that cannot
\* be served (no route, every candidate beyond reach, or no candidate with a
\* free block of the required size): they return the blocked value and leave
\* the grid as it was.
C7_BlockedNotRaised ==
    (/\ last.op \in {"sp_ff_assign", "ksp_mw_assign"}
     /\ Unservable(pre, Candidates(last.op, last.demand, last.k),
                   last.demand.bandwidth))
        => /\ last.exc = NoException
           /\ last.ret = None
           /\ spectrum = pre

\* ksp_mw_assign blocked a demand whose every candidate is within reach but
\* full, on a grid that earlier demands occupy
C7_Witness ==
    /\ last.op = "ksp_mw_assign" /\ last.k = K_PATHS
    /\ LET paths == Candidates(last.op, last.demand, last.k)
       IN  /\ Len(paths) > 1
           /\ \A i \in 1..Len(paths) :
                /\ SlotCount(last.demand.bandwidth, paths[i]) # None
                /\ Val(SlotCount(last.demand.bandwidth, paths[i]))
                     <= NumSlots
           /\ Unservable(pre, paths, last.demand.bandwidth)
    /\ last.exc = NoException /\ last.ret = None
    /\ Len(assigned) > 0

(***************************************************************************)
(* A Solution over the demands, edited and validated.                      *)
(***************************************************************************)
\* the (path, start_slot, num_slots) handed to set_assignment: two routes of
\* the demand, at the bottom and at the top of the grid and over its edge,
\* and paths that are too short, end elsewhere or use a link that is no edge
SolPlacements ==
    { << <<0, 1, 2>>, 0, 2 >>, << <<0, 1, 2>>, 1, 1 >>,
      << <<0, 2>>, 0, 2 >>, << <<0, 2>>, NumSlots - 1, 1 >>,
      << <<0, 2>>, NumSlots - 1, 2 >>, << <<0, 2>>, -1, 2 >>,
      << <<0>>, 0, 1 >>, << <<1, 2>>, 1, 1 >>, << <<0, 3, 2>>, 0, 1 >> }

InitSol ==
    /\ impl = "core"
    /\ spectrum = NetworkInit
    /\ pre = spectrum
    /\ last = Constructed
    /\ nops = 0
    /\ assigned = <<>>
    /\ solution = Some(SolutionInit(TheNetwork, SolDemands))
    /\ clone = None
    /\ opt = None

Call_set_assignment ==
    \E demand_index \in 0..(NumDemands - 1) :
      \E assignment \in {None} \cup
            { Some(SolAssignment(demand_index, p[1], p[2], p[3])) :
                p \in SolPlacements } :
        /\ solution' = Some(set_assignment(Val(solution), demand_index,
                                           assignment))
        /\ last' = [op |-> "set_assignment", demand_index |-> demand_index]
        /\ UNCHANGED <<impl, spectrum, pre, nops, assigned, clone, opt>>

Call_validate ==
    LET result == validate(Val(solution))
    IN  /\ solution' = Some([Val(solution) EXCEPT
                                !._is_valid = Some(result.is_valid)])
        /\ last' = [op |-> "validate", is_valid |-> result.is_valid,
                    errors |-> result.errors]
        /\ UNCHANGED <<impl, spectrum, pre, nops, assigned, clone, opt>>

NextSol ==
    \/ Call_set_assignment
    \/ Call_validate

SpecSol == InitSol /\ [][NextSol]_vars

\* the demand indices that hold an assignment
AssignedIndices(sol) ==
    { idx \in 0..(Len(sol.assignments) - 1) : sol.assignments[idx + 1] # None }

AssignmentOf(sol, idx) == Val(sol.assignments[idx + 1])

\* continuity, endpoints and bounds of every assignment (one slot range,
\* inside the grid, on a path of edges from the demand's source to its
\* destination), and no two assignments overlapping
SatisfiesInvariants(sol) ==
    /\ \A idx \in AssignedIndices(sol) :
        LET a == AssignmentOf(sol, idx)
        IN  /\ Len(a.path) >= 2
            /\ \A i \in 1..(Len(a.path) - 1) : HasEdge(a.path[i], a.path[i + 1])
            /\ a.path[1] = sol.demands[idx + 1].source
            /\ a.path[Len(a.path)] = sol.demands[idx + 1].destination
            /\ a.start_slot >= 0 /\ a.num_slots >= 1
            /\ a.start_slot + a.num_slots <= sol.network.num_slots
    /\ \A i, j \in AssignedIndices(sol) :
        i < j => ~Overlap(AssignmentOf(sol, i), AssignmentOf(sol, j))

\* a conflict error that names demand i and demand j
NamesBoth(e, i, j) ==
    /\ e.kind = "spectrum conflict"
    /\ \/ e.idx = i /\ \E n \in 1..Len(e.conflicting) : e.conflicting[n] = j
       \/ e.idx = j /\ \E n \in 1..Len(e.conflicting) : e.conflicting[n] = i

\* C3: validate() returns no errors for every Solution that satisfies the
\* continuity, non-overlap and endpoint invariants, and for any two
\* assignments of a Solution that share a link and have overlapping slot
\* ranges it returns invalid with a conflict error that names both demands.
C3_ValidateVerdict ==
    last.op = "validate" =>
        LET sol == Val(solution)
        IN  /\ SatisfiesInvariants(sol)
                => last.is_valid /\ last.errors = <<>>
            /\ \A i, j \in AssignedIndices(sol) :
                (i < j /\ Overlap(AssignmentOf(sol, i), AssignmentOf(sol, j)))
                    => /\ ~last.is_valid
                       /\ \E n \in 1..Len(last.errors) :
                            NamesBoth(last.errors[n], i, j)

(***************************************************************************)
(* Direction of traversal.                                                 *)
(***************************************************************************)
\* path[::-1]
Reverse(path) == [i \in 1..Len(path) |-> path[Len(path) + 1 - i]]

\* the ranges [s1, s1+n1) and [s2, s2+n2) have a slot in common
RangesOverlap(s1, n1, s2, n2) == s1 < s2 + n2 /\ s2 < s1 + n1

DEFAULT_NUM_SLOTS == 320

DefaultNetwork == [num_slots |-> DEFAULT_NUM_SLOTS]

FitDemands ==
    << [source |-> 0, destination |-> 3, bandwidth |-> 100],
       [source |-> 0, destination |-> 2, bandwidth |-> 100] >>

\* the placements tried for each demand: wide and narrow ones, one at the
\* top of the grid, one past its end
FitPlacements ==
    << { << <<0, 1, 2, 3>>, 0, DEFAULT_NUM_SLOTS - 1 >>,
         << <<0, 2, 3>>, DEFAULT_NUM_SLOTS - 1, 1 >>,
         << <<0, 2, 3>>, DEFAULT_NUM_SLOTS - 1, 2 >> },
       { << <<0, 2>>, 0, DEFAULT_NUM_SLOTS - 1 >>,
         << <<0, 2>>, 1, 1 >>,
         << <<0, 1, 2>>, 2, 2 >> } >>

InitFit ==
    /\ impl = "core"
    /\ spectrum = NetworkInit
    /\ pre = spectrum
    /\ last = Constructed
    /\ nops = 0
    /\ assigned = <<>>
    /\ solution = Some(SolutionInit(DefaultNetwork, FitDemands))
    /\ clone = None
    /\ opt = None

Targets == {"solution", "clone"}

Obj(target) == IF target = "solution" THEN solution ELSE clone

\* the step leaves target holding new and the other object as it was
Becomes(target, new) ==
    /\ solution' = IF target = "solution" THEN Some(new) ELSE solution
    /\ clone' = IF target = "clone" THEN Some(new) ELSE clone

Fit_set_assignment(target) ==
    /\ Obj(target) # None
    /\ \E demand_index \in 0..(Len(FitDemands) - 1) :
         \E assignment \in {None} \cup
              { Some(SolAssignment(demand_index, p[1], p[2], p[3])) :
                  p \in FitPlacements[demand_index + 1] } :
           /\ Becomes(target, set_assignment(Val(Obj(target)), demand_index,
                                             assignment))
           /\ last' = [op |-> "set_assignment", target |-> target,
                       dropped |-> Val(Obj(target))._fitness]
    /\ UNCHANGED <<impl, spectrum, pre, nops, assigned, opt>>

Fit_validate(target) ==
    /\ Obj(target) # None
    /\ LET result == validate(Val(Obj(target)))
       IN  /\ Becomes(target, [Val(Obj(target)) EXCEPT
                                  !._is_valid = Some(result.is_valid)])
           /\ last' = [op |-> "validate", target |-> target,
                       is_valid |-> result.is_valid]
    /\ UNCHANGED <<impl, spectrum, pre, nops, assigned, opt>>

\* stale is the cached fitness that a set_assignment on the same object
\* dropped in the step just before this call (None otherwise)
Fit_calculate_fitness(target) ==
    /\ Obj(target) # None
    /\ LET result == calculate_fitness(Val(Obj(target)))
       IN  /\ Becomes(target, result.sol)
           /\ last' = [op |-> "calculate_fitness", target |-> target,
                       ret |-> result.ret,
                       cached |-> Val(Obj(target))._fitness # None,
                       stale |-> IF /\ last.op = "set_assignment"
                                    /\ last.target = target
                                 THEN last.dropped ELSE None]
    /\ UNCHANGED <<impl, spectrum, pre, nops, assigned, opt>>

Fit_copy ==
    /\ clone' = Some(copy(Val(solution)))
    /\ last' = [op |-> "copy", target |-> "clone"]
    /\ UNCHANGED <<impl, spectrum, pre, nops, assigned, solution, opt>>

NextFit ==
    \/ \E target \in Targets : Fit_set_assignment(target)
    \/ \E target \in Targets : Fit_validate(target)
    \/ \E target \in Targets : Fit_calculate_fitness(target)
    \/ Fit_copy

SpecFit == InitFit /\ [][NextFit]_vars

\* the cached fitness of an object on which calculate_fitness has run since
\* its last set_assignment
HasFitness(target) == Obj(target) # None /\ Val(Obj(target))._fitness # None

FitnessOf(target) == Val(Val(Obj(target))._fitness)

ValidIncomplete(sol) == SatisfiesInvariants(sol) /\ ~is_complete(sol)

\* C12: a valid Solution with unassigned demands has a finite fitness, of
\* two such Solutions the one with more demands assigned has the strictly
\* lower fitness, and only invalid Solutions have an infinite fitness.
C12_IncompleteFinite ==
    /\ \A target \in Targets :
        HasFitness(target) =>
            /\ ValidIncomplete(Val(Obj(target))) => ~FitnessOf(target).inf
            /\ FitnessOf(target).inf => ~SatisfiesInvariants(Val(Obj(target)))
    /\ \A a, b \in Targets :
        /\ HasFitness(a) /\ HasFitness(b)
        /\ ValidIncomplete(Val(Obj(a))) /\ ValidIncomplete(Val(Obj(b)))
        /\ get_assigned_count(Val(Obj(a))) > get_assigned_count(Val(Obj(b)))
        => FloatLess(FitnessOf(a), FitnessOf(b))

ValidComplete(sol) == SatisfiesInvariants(sol) /\ is_complete(sol)

\* the highest end_slot of the assignments of a Solution
MaxEnd(sol) ==
    SetMax({ AssignmentOf(sol, idx).start_slot
             + AssignmentOf(sol, idx).num_slots : idx \in AssignedIndices(sol) })

\* the slot-links the assignments from index idx on consume
RECURSIVE ConsumptionFrom(_, _)
ConsumptionFrom(sol, idx) ==
    IF idx >= Len(sol.assignments) THEN 0
    ELSE (IF sol.assignments[idx + 1] = None THEN 0
          ELSE AssignmentOf(sol, idx).num_slots
               * (Len(AssignmentOf(sol, idx).path) - 1))
         + ConsumptionFrom(sol, idx + 1)

Consumption(sol) == ConsumptionFrom(sol, 0)

\* a and b are valid complete Solutions whose fitness has been calculated,
\* and a has the smaller maximum end slot
LowerMaxEnd(a, b) ==
    /\ HasFitness(a) /\ HasFitness(b)
    /\ ValidComplete(Val(Obj(a))) /\ ValidComplete(Val(Obj(b)))
    /\ MaxEnd(Val(Obj(a))) < MaxEnd(Val(Obj(b)))

\* what a consumes more than b is less than the weight of the difference
\* of their maximum end slots
WithinWeight(a, b) ==
    Consumption(Val(Obj(a))) - Consumption(Val(Obj(b)))
        < MAX_SLOT_WEIGHT * (MaxEnd(Val(Obj(b))) - MaxEnd(Val(Obj(a))))

\* C13: of two valid complete Solutions the one with the smaller maximum
\* end slot has the strictly smaller fitness, provided what it consumes
\* more in slot-links than the other is less than 1000 times the
\* difference of the maximum end slots.
C13_MaxEndDominates ==
    \A a, b \in Targets :
        LowerMaxEnd(a, b) /\ WithinWeight(a, b)
            => FloatLess(FitnessOf(a), FitnessOf(b))

\* the Solution with the smaller maximum end slot consumes more
C13_Witness ==
    \E a, b \in Targets :
        /\ LowerMaxEnd(a, b) /\ WithinWeight(a, b)
        /\ Consumption(Val(Obj(a))) > Consumption(Val(Obj(b)))
        /\ last.op = "calculate_fitness"

\* C13 as stated: the smaller maximum end slot gives the smaller fitness
\* whatever the Solutions consume.
C13_Original ==
    \A a, b \in Targets :
        LowerMaxEnd(a, b) => FloatLess(FitnessOf(a), FitnessOf(b))

\* what calculate_fitness computes from the assignments of sol when nothing
\* is cached
FromScratch(sol) == calculate_fitness(copy(sol)).ret

\* C14: after any interleaving of set_assignment, validate, copy and
\* calculate_fitness, calculate_fitness returns what a from-scratch
\* evaluation of the current assignments gives: every cached fitness is
\* the from-scratch value (so a repeated call returns the same value), and
\* a fitness cached before a set_assignment is not returned after it.
C14_CacheCoherent ==
    /\ \A target \in Targets :
        HasFitness(target) => FitnessOf(target) = FromScratch(Val(Obj(target)))
    /\ last.op = "calculate_fitness" =>
        last.ret = FromScratch(Val(Obj(last.target)))

\* calculate_fitness right after a set_assignment that dropped a cached
\* fitness, returning another value than the dropped one
C14_Witness ==
    /\ last.op = "calculate_fitness"
    /\ last.stale # None
    /\ Val(last.stale) # last.ret
    /\ ~last.ret.inf

\* ------------------------------------------------------------------
\* Solution.apply_to_network on the grid of the Solution's network.
\* ------------------------------------------------------------------

ValueError == "ValueError"

\* the loop of apply_to_network (solution.py 224-232), from assignment i on:
\* the exception it ends with and the grid it leaves behind
RECURSIVE ApplyFrom(_, _, _)
ApplyFrom(g, sol, i) ==
    IF i > Len(sol.assignments) THEN [exc |-> NoException, grid |-> g]
    ELSE IF sol.assignments[i] = None THEN ApplyFrom(g, sol, i + 1)
    ELSE
    LET assignment == Val(sol.assignments[i])
        done == allocate_spectrum(g, assignment.path, assignment.start_slot,
                                  assignment.num_slots)
    IN  IF ~done.ret THEN [exc |-> ValueError, grid |-> g]
        ELSE ApplyFrom(done.grid, sol, i + 1)

apply_to_network(g, sol) == ApplyFrom(reset(g), sol, 1)

ApplyDemands ==
    << [source |-> 0, destination |-> 2, bandwidth |-> 100],
       [source |-> 0, destination |-> 2, bandwidth |-> 100] >>

\* placements that fit together, that overlap, that pass the top of the
\* grid, and that start below slot 0
ApplyPlacements ==
    { << <<0, 2>>, 0, 2 >>, << <<0, 1, 2>>, 1, 1 >>, << <<0, 2>>, 1, 2 >>,
      << <<0, 2>>, NumSlots - 1, 2 >>, << <<0, 2>>, -1, 2 >> }

\* the grid is empty or holds an allocation made before
InitApply ==
    /\ impl = "core"
    /\ spectrum \in { NetworkInit,
                      allocate_spectrum(NetworkInit, <<0, 1, 2>>, 0,
                                        NumSlots).grid }
    /\ pre = spectrum
    /\ last = Constructed
    /\ nops = 0
    /\ assigned = <<>>
    /\ solution = Some(SolutionInit(TheNetwork, ApplyDemands))
    /\ clone = None
    /\ opt = None

Apply_set_assignment ==
    \E demand_index \in 0..(Len(ApplyDemands) - 1) :
      \E assignment \in {None} \cup
            { Some(SolAssignment(demand_index, p[1], p[2], p[3])) :
                p \in ApplyPlacements } :
        /\ solution' = Some(set_assignment(Val(solution), demand_index,
                                           assignment))
        /\ last' = [op |-> "set_assignment", demand_index |-> demand_index]
        /\ UNCHANGED <<impl, spectrum, pre, nops, assigned, clone, opt>>

Call_apply_to_network ==
    LET done == apply_to_network(spectrum, Val(solution))
    IN  /\ spectrum' = done.grid
        /\ pre' = spectrum
        /\ last' = [op |-> "apply_to_network", exc |-> done.exc]
        /\ UNCHANGED <<impl, nops, assigned, solution, clone, opt>>

NextApply ==
    \/ Apply_set_assignment
    \/ Call_apply_to_network

SpecApply == InitApply /\ [][NextApply]_vars

\* the assignment of demand idx lies in the grid and shares no slot on a
\* link with an assignment of a lower index
FreeAtItsTurn(sol, idx) ==
    LET a == AssignmentOf(sol, idx)
    IN  /\ a.start_slot >= 0
        /\ a.start_slot + a.num_slots <= sol.network.num_slots
        /\ \A j \in AssignedIndices(sol) :
            j < idx => ~Overlap(AssignmentOf(sol, j), a)

\* the slots of link that the ranges of the assignments using it cover
UnionOfRanges(sol, link) ==
    { s \in Slots : \E idx \in AssignedIndices(sol) :
        LET a == AssignmentOf(sol, idx)
        IN  /\ link \in PathLinks(a.path)
            /\ InRange(s, a.start_slot, a.num_slots) }

\* C15: apply_to_network raises exactly when the range of some assignment
\* is not free at its turn in the replay, in index order, on the cleared
\* grid; when it returns normally the occupied slots of every link are the
\* union of the ranges of the assignments whose path uses the link.
C15_ApplyContract ==
    last.op = "apply_to_network" =>
        LET sol == Val(solution)
        IN  /\ last.exc = ValueError <=>
                \E idx \in AssignedIndices(sol) : ~FreeAtItsTurn(sol, idx)
            /\ last.exc = NoException =>
                \A link \in DOMAIN spectrum :
                    Occupied(spectrum, link) = UnionOfRanges(sol, link)

\* ------------------------------------------------------------------
\* metaheuristics/genetic_algorithm.py
\* ------------------------------------------------------------------

\* the paths of S by ascending number of hops (the numbers are distinct)
RankByHops(S) ==
    <<>> @@ [i \in 1..Cardinality(S) |->
        CHOOSE p \in S :
            Cardinality({ q \in S : Len(q) < Len(p) }) = i - 1]

\* nx.shortest_simple_paths(graph, source, target) without a weight: the
\* simple paths from source to target by ascending number of hops
HopRankedPaths ==
    <<>> @@ [st \in Nodes \X Nodes |->
        RankByHops({ p \in SimplePaths :
                        p[1] = st[1] /\ p[Len(p)] = st[2] })]

\* candidate_paths[idx] for every demand, idx counted from 0
_compute_candidate_paths(demands, k_paths) ==
    [idx \in 0..(Len(demands) - 1) |->
        Prefix(HopRankedPaths[<<demands[idx + 1].source,
                                demands[idx + 1].destination>>], k_paths)]

_calculate_num_slots(path, demand) ==
    calculate_required_slots(demand.bandwidth, get_path_distance(path))

\* the temp_network the operators build: an empty grid with the assignments
\* of sol from index idx on allocated, whatever allocate_spectrum returns
RECURSIVE AllocateFrom(_, _, _)
AllocateFrom(g, sol, idx) ==
    IF idx >= Len(sol.assignments) THEN g
    ELSE IF sol.assignments[idx + 1] = None THEN AllocateFrom(g, sol, idx + 1)
    ELSE LET a == Val(sol.assignments[idx + 1])
         IN  AllocateFrom(allocate_spectrum(g, a.path, a.start_slot,
                                            a.num_slots).grid,
                          sol, idx + 1)

TempNetwork(sol) == AllocateFrom(NetworkInit, sol, 0)

\* sorted(range(len(demands)), key=bandwidth, reverse=True): the indices by
\* descending bandwidth, equal bandwidths in index order
SortedByBandwidth(demands) ==
    [n \in 1..Len(demands) |->
        CHOOSE i \in 0..(Len(demands) - 1) :
            Cardinality({ j \in 0..(Len(demands) - 1) :
                \/ demands[j + 1].bandwidth > demands[i + 1].bandwidth
                \/ /\ demands[j + 1].bandwidth = demands[i + 1].bandwidth
                   /\ j < i }) = n - 1]

\* the loop of _create_greedy_solution, from position n of the order on;
\* st holds solution and temp_network
RECURSIVE GreedyFrom(_, _, _)
GreedyFrom(st, order, n) ==
    IF n > Len(order) THEN st
    ELSE
    LET idx == order[n]
        result == sp_ff_assign(st.temp_network, st.solution.demands[idx + 1])
    IN  IF result.ret = None
        THEN GreedyFrom([st EXCEPT !.temp_network = result.grid], order, n + 1)
        ELSE
        LET r == Val(result.ret)
        IN  GreedyFrom(
                [solution |-> set_assignment(st.solution, idx,
                    Some(SolAssignment(idx, r.path, r.start_slot,
                                       r.num_slots))),
                 temp_network |-> result.grid],
                order, n + 1)

_create_greedy_solution(network, demands) ==
    GreedyFrom([solution |-> SolutionInit(network, demands),
                temp_network |-> NetworkInit],
               SortedByBandwidth(demands), 1).solution

\* the orders random.shuffle can leave a list of the indices 0..n-1 in
Shuffles(n) ==
    { order \in [1..n -> 0..(n - 1)] :
        \A i, j \in 1..n : i # j => order[i] # order[j] }

\* the start slots the random placement of _create_random_solution can end
\* with (genetic_algorithm.py 147-165): when max_start > 0, one of five
\* draws from 0..max_start that is available, or the first-fit slot when
\* every draw was unavailable; the first-fit slot otherwise
RandomStarts(g, path, num_slots) ==
    LET max_start == NumSlots - num_slots
        free == { s \in 0..max_start :
                    is_spectrum_available(g, path, s, num_slots) }
        fit == first_fit(g, path, num_slots)
    IN  IF max_start > 0
        THEN free \cup (IF free # 0..max_start /\ fit # None
                        THEN {Val(fit)} ELSE {})
        ELSE IF fit = None THEN {} ELSE {Val(fit)}

\* the loop of _create_random_solution, from position n of the order on:
\* the set of states (solution, temp_network) it can end in
RECURSIVE RandomFrom(_, _, _, _)
RandomFrom(st, candidate_paths, order, n) ==
    IF n > Len(order) THEN {st}
    ELSE
    LET idx == order[n]
        demand == st.solution.demands[idx + 1]
        paths == candidate_paths[idx]
        placed(path) ==
            LET num_slots == _calculate_num_slots(path, demand)
            IN  IF num_slots = None THEN {st}
                ELSE
                LET starts == RandomStarts(st.temp_network, path,
                                           Val(num_slots))
                IN  IF starts = {} THEN {st}
                    ELSE { [solution |-> set_assignment(st.solution, idx,
                                Some(SolAssignment(idx, path, s,
                                                   Val(num_slots)))),
                            temp_network |-> allocate_spectrum(
                                st.temp_network, path, s,
                                Val(num_slots)).grid] : s \in starts }
    IN  IF paths = <<>> THEN RandomFrom(st, candidate_paths, order, n + 1)
        ELSE UNION { RandomFrom(next, candidate_paths, order, n + 1) :
                next \in UNION { placed(paths[k]) : k \in 1..Len(paths) } }

\* the Solutions _create_random_solution can return
_create_random_solution(network, demands, candidate_paths) ==
    { st.solution :
        st \in UNION { RandomFrom([solution |-> SolutionInit(network, demands),
                                   temp_network |-> NetworkInit],
                                  candidate_paths, order, 1) :
                        order \in Shuffles(Len(demands)) } }

\* the loop of the uniform crossover (genetic_algorithm.py 258-270): coins[idx]
\* is TRUE when random.random() < 0.5 at demand idx
Inherit(network, demands, first, second, coins) ==
    [SolutionInit(network, demands) EXCEPT
        !.assignments = <<>> \o [i \in 1..Len(demands) |->
            IF coins[i - 1] THEN first.assignments[i]
            ELSE second.assignments[i]]]

\* the first loop of _repair_solution (genetic_algorithm.py 298-313), from
\* index idx on; st holds temp_network and conflicting_demands
RECURSIVE ReplayFrom(_, _, _)
ReplayFrom(st, sol, idx) ==
    IF idx >= Len(sol.assignments) THEN st
    ELSE IF sol.assignments[idx + 1] = None THEN ReplayFrom(st, sol, idx + 1)
    ELSE
    LET a == Val(sol.assignments[idx + 1])
    IN  IF ~is_spectrum_available(st.temp_network, a.path, a.start_slot,
                                  a.num_slots)
        THEN ReplayFrom([st EXCEPT !.conflicting_demands = @ \cup {idx}],
                        sol, idx + 1)
        ELSE ReplayFrom([st EXCEPT !.temp_network =
                            allocate_spectrum(@, a.path, a.start_slot,
                                              a.num_slots).grid],
                        sol, idx + 1)

\* the first-fit over the candidate paths of demand idx, from path k on
\* (genetic_algorithm.py 320-333): the assignment made, or None
RECURSIVE FirstFitOverPaths(_, _, _, _, _)
FirstFitOverPaths(g, demand, idx, paths, k) ==
    IF k > Len(paths) THEN None
    ELSE
    LET num_slots == _calculate_num_slots(paths[k], demand)
        start_slot == IF num_slots = None THEN None
                      ELSE first_fit(g, paths[k], Val(num_slots))
    IN  IF start_slot = None
        THEN FirstFitOverPaths(g, demand, idx, paths, k + 1)
        ELSE Some(SolAssignment(idx, paths[k], Val(start_slot),
                                Val(num_slots)))

\* the last loop of _repair_solution (genetic_algorithm.py 320-333) over the
\* conflicting demands still to do, in ascending order (the order in which
\* a set of small integers is iterated); st holds solution and temp_network
RECURSIVE ReassignAll(_, _, _)
ReassignAll(st, candidate_paths, todo) ==
    IF todo = {} THEN st
    ELSE
    LET idx == SetMin(todo)
        found == FirstFitOverPaths(st.temp_network,
                                   st.solution.demands[idx + 1], idx,
                                   candidate_paths[idx], 1)
    IN  IF found = None
        THEN ReassignAll(st, candidate_paths, todo \ {idx})
        ELSE ReassignAll(
                [solution |-> set_assignment(st.solution, idx, found),
                 temp_network |-> allocate_spectrum(st.temp_network,
                    Val(found).path, Val(found).start_slot,
                    Val(found).num_slots).grid],
                candidate_paths, todo \ {idx})

\* set_assignment(idx, None) for every idx of the set
RECURSIVE RemoveAll(_, _)
RemoveAll(sol, todo) ==
    IF todo = {} THEN sol
    ELSE RemoveAll(set_assignment(sol, SetMin(todo), None),
                   todo \ {SetMin(todo)})

\* _repair_solution leaving the Solution as it got it
_repair_solution_skipped(sol, candidate_paths) == sol

\* the Solution that _repair_solution leaves in place of sol
_repair_solution(sol, candidate_paths) ==
    LET is_valid == validate(sol).is_valid
        validated == [sol EXCEPT !._is_valid = Some(is_valid)]
    IN  IF is_valid THEN validated
        ELSE
        LET replayed == ReplayFrom([temp_network |-> NetworkInit,
                                    conflicting_demands |-> {}],
                                   validated, 0)
            removed == RemoveAll(validated, replayed.conflicting_demands)
        IN  ReassignAll([solution |-> removed,
                         temp_network |-> replayed.temp_network],
                        candidate_paths,
                        replayed.conflicting_demands).solution

\* the two offspring of _crossover for one sequence of coins
_crossover(parent1, parent2, candidate_paths, coins) ==
    << _repair_solution(Inherit(parent1.network, parent1.demands,
                                parent1, parent2, coins), candidate_paths),
       _repair_solution(Inherit(parent1.network, parent1.demands,
                                parent2, parent1, coins), candidate_paths) >>

\* the Solutions _mutate_change_route can leave in place of sol
_mutate_change_route(sol, candidate_paths) ==
    LET assigned_indices == AssignedIndices(sol)
        routed(idx) ==
            LET paths == candidate_paths[idx]
                current_assignment == AssignmentOf(sol, idx)
                other_paths == { paths[k] : k \in 1..Len(paths) }
                                    \ {current_assignment.path}
                removed == set_assignment(sol, idx, None)
                temp_network == TempNetwork(removed)
                tried(new_path) ==
                    LET num_slots == _calculate_num_slots(new_path,
                                                          sol.demands[idx + 1])
                        start_slot ==
                            IF num_slots = None THEN None
                            ELSE first_fit(temp_network, new_path,
                                           Val(num_slots))
                    IN  IF start_slot = None THEN removed
                        ELSE set_assignment(removed, idx,
                                Some(SolAssignment(idx, new_path,
                                        Val(start_slot), Val(num_slots))))
            IN  IF Len(paths) <= 1 \/ other_paths = {} THEN {sol}
                ELSE { tried(new_path) : new_path \in other_paths }
    IN  IF assigned_indices = {} THEN {sol}
        ELSE UNION { routed(idx) : idx \in assigned_indices }

\* the Solutions _mutate_shift_spectrum can leave in place of sol: the
\* demand moved to one of the first ten of the shuffled start slots that is
\* available, or left unassigned when all ten are taken
_mutate_shift_spectrum(sol) ==
    LET assigned_indices == AssignedIndices(sol)
        shifted(idx) ==
            LET current_assignment == AssignmentOf(sol, idx)
                removed == set_assignment(sol, idx, None)
                temp_network == TempNetwork(removed)
                num_slots == current_assignment.num_slots
                possible_slots == 0..(NumSlots - num_slots)
                free == { s \in possible_slots :
                            is_spectrum_available(temp_network,
                                current_assignment.path, s, num_slots) }
            IN  { set_assignment(removed, idx,
                    Some(SolAssignment(idx, current_assignment.path, s,
                                       num_slots))) : s \in free }
                \cup (IF \/ free = {}
                         \/ Cardinality(possible_slots \ free) >= 10
                      THEN {removed} ELSE {})
    IN  IF assigned_indices = {} THEN {sol}
        ELSE UNION { shifted(idx) : idx \in assigned_indices }

\* the Solutions _mutate_reassign can leave in place of sol
_mutate_reassign(sol, candidate_paths) ==
    { LET removed == set_assignment(sol, idx, None)
          found == FirstFitOverPaths(TempNetwork(removed),
                                     sol.demands[idx + 1], idx,
                                     candidate_paths[idx], 1)
      IN  IF found = None THEN removed
          ELSE set_assignment(removed, idx, found) :
        idx \in 0..(Len(sol.demands) - 1) }

\* the Solutions _mutate can leave in place of sol, over the operator and
\* the draws within it
_mutate(sol, candidate_paths) ==
    _mutate_change_route(sol, candidate_paths)
        \cup _mutate_shift_spectrum(sol)
        \cup _mutate_reassign(sol, candidate_paths)

\* the samples random.sample(population, k) can return, as sequences of
\* positions in the population
Samples(n, k) ==
    { sample \in [1..k -> 1..n] :
        \A i, j \in 1..k : i # j => sample[i] # sample[j] }

\* min(seq, key=fitness): the position of the first element of fitnesses
\* that no other element is less than
ArgMin(fitnesses) ==
    CHOOSE i \in 1..Len(fitnesses) :
        /\ \A j \in 1..Len(fitnesses) : ~FloatLess(fitnesses[j], fitnesses[i])
        /\ \A j \in 1..(i - 1) :
            \E m \in 1..Len(fitnesses) : FloatLess(fitnesses[m], fitnesses[j])

\* the Solutions _tournament_selection can return
_tournament_selection(population, tournament_size) ==
    { LET tournament == [i \in 1..tournament_size |-> population[sample[i]]]
      IN  tournament[ArgMin([i \in 1..tournament_size |->
                                calculate_fitness(tournament[i]).ret])] :
        sample \in Samples(Len(population), tournament_size) }

\* every Solution of the population after calculate_fitness has run on it
Evaluated(population) ==
    [i \in 1..Len(population) |-> calculate_fitness(population[i]).sol]

\* population.sort(key=fitness): ascending fitness, equal ones in the order
\* they had
SortedByFitness(population) ==
    [n \in 1..Len(population) |->
        population[CHOOSE i \in 1..Len(population) :
            Cardinality({ j \in 1..Len(population) :
                \/ FloatLess(Val(population[j]._fitness),
                             Val(population[i]._fitness))
                \/ /\ ~FloatLess(Val(population[i]._fitness),
                                 Val(population[j]._fitness))
                   /\ j < i }) = n - 1]]

\* the parameters of the GeneticAlgorithm object (genetic_algorithm.py 25-36)
GAParams == [population_size |-> 2, k_paths |-> 2, tournament_size |-> 2]

\* the elite sizes the runs are made with
GAEliteSizes == {0, 1}

GADemands ==
    << [source |-> 0, destination |-> 2, bandwidth |-> 200],
       [source |-> 1, destination |-> 2, bandwidth |-> 200] >>

GACandidatePaths == _compute_candidate_paths(GADemands, GAParams.k_paths)

GAGenerations == {0, 2}

AttributeErrorIn(applied) ==
    IF applied.exc # NoException THEN applied.exc ELSE AttributeError

InitGA ==
    /\ impl = "core"
    /\ spectrum = NetworkInit
    /\ pre = spectrum
    /\ last = Constructed
    /\ nops = 0
    /\ assigned = <<>>
    /\ solution = None
    /\ clone = None
    /\ \E generations \in GAGenerations, verbose \in BOOLEAN,
          elite_size \in GAEliteSizes :
        opt = Some([pc |-> "initialize", generations |-> generations,
                    elite_size |-> elite_size,
                    verbose |-> verbose, generation |-> 0,
                    population |-> <<>>, new_population |-> <<>>,
                    ret |-> None, exc |-> NoException])

\* optimize up to the loop: population = self._initialize_population()
GA_initialize_population ==
    /\ opt # None /\ Val(opt).pc = "initialize"
    /\ \E randoms \in [1..(GAParams.population_size - 1) ->
            _create_random_solution(TheNetwork, GADemands, GACandidatePaths)] :
        opt' = Some([Val(opt) EXCEPT
                !.population = <<_create_greedy_solution(TheNetwork,
                                                         GADemands)>>
                               \o randoms,
                !.pc = "generation"])
    /\ last' = [op |-> "_initialize_population"]
    /\ UNCHANGED <<impl, spectrum, pre, nops, assigned, solution, clone>>

\* the head of one generation: fitness evaluation, sort and elitism
GA_evaluate ==
    /\ opt # None /\ Val(opt).pc = "generation"
    /\ Val(opt).generation < Val(opt).generations
    /\ LET sorted == SortedByFitness(Evaluated(Val(opt).population))
       IN  opt' = Some([Val(opt) EXCEPT
                !.population = sorted,
                !.new_population =
                    [i \in 1..Min2(Val(opt).elite_size, Len(sorted)) |->
                        copy(sorted[i])],
                !.pc = "offspring"])
    /\ last' = [op |-> "evaluate"]
    /\ UNCHANGED <<impl, spectrum, pre, nops, assigned, solution, clone>>

\* one pass of the offspring loop: selection, crossover or copy, mutation
GA_offspring ==
    /\ opt # None /\ Val(opt).pc = "offspring"
    /\ Len(Val(opt).new_population) < GAParams.population_size
    /\ \E parent1, parent2 \in
            _tournament_selection(Val(opt).population,
                                  GAParams.tournament_size),
          crossed, mutate1, mutate2 \in BOOLEAN,
          coins \in [0..(Len(GADemands) - 1) -> BOOLEAN] :
        LET inherited == Inherit(TheNetwork, GADemands, parent1, parent2,
                                 coins)
            offspring == IF crossed
                         THEN _crossover(parent1, parent2, GACandidatePaths,
                                         coins)
                         ELSE <<copy(parent1), copy(parent2)>>
        IN  \E offspring1 \in IF mutate1
                              THEN _mutate(offspring[1], GACandidatePaths)
                              ELSE {offspring[1]},
               offspring2 \in IF mutate2
                              THEN _mutate(offspring[2], GACandidatePaths)
                              ELSE {offspring[2]} :
              /\ opt' = Some([Val(opt) EXCEPT !.new_population =
                    IF Len(@) + 1 < GAParams.population_size
                    THEN @ \o <<offspring1, offspring2>>
                    ELSE Append(@, offspring1)])
              /\ last' = [op |-> "offspring", crossed |-> crossed,
                          repaired |-> crossed
                                /\ ~validate(inherited).is_valid,
                          mutated |-> mutate1 /\ offspring1 # offspring[1]]
    /\ UNCHANGED <<impl, spectrum, pre, nops, assigned, solution, clone>>

\* the end of one generation: population = new_population
GA_next_generation ==
    /\ opt # None /\ Val(opt).pc = "offspring"
    /\ Len(Val(opt).new_population) >= GAParams.population_size
    /\ opt' = Some([Val(opt) EXCEPT
            !.population = Val(opt).new_population,
            !.new_population = <<>>,
            !.generation = @ + 1,
            !.pc = "generation"])
    /\ last' = [op |-> "next_generation"]
    /\ UNCHANGED <<impl, spectrum, pre, nops, assigned, solution, clone>>

\* after the loop: the best of the population is returned; with verbose,
\* get_metrics is called on it first, which applies it to the network and
\* then calls Network.get_max_slot_used, a method the class does not have
GA_return ==
    /\ opt # None /\ Val(opt).pc = "generation"
    /\ Val(opt).generation >= Val(opt).generations
    /\ LET population == Evaluated(Val(opt).population)
           best_solution ==
                population[ArgMin([i \in 1..Len(population) |->
                                    Val(population[i]._fitness)])]
           applied == apply_to_network(spectrum, best_solution)
       IN  IF Val(opt).verbose
           THEN /\ opt' = Some([Val(opt) EXCEPT
                        !.population = population,
                        !.exc = AttributeErrorIn(applied),
                        !.pc = "done"])
                /\ spectrum' = applied.grid
           ELSE /\ opt' = Some([Val(opt) EXCEPT
                        !.population = population,
                        !.ret = Some(best_solution),
                        !.pc = "done"])
                /\ spectrum' = spectrum
    /\ last' = [op |-> "return"]
    /\ UNCHANGED <<impl, pre, nops, assigned, solution, clone>>

NextGA ==
    \/ GA_initialize_population
    \/ GA_evaluate
    \/ GA_offspring
    \/ GA_next_generation
    \/ GA_return

SpecGA == InitGA /\ [][NextGA]_vars

\* the Solutions the running GeneticAlgorithm holds: the population, the
\* next population under construction, and the returned Solution
GAHeld ==
    { Val(opt).population[i] : i \in 1..Len(Val(opt).population) }
        \cup { Val(opt).new_population[i] :
                i \in 1..Len(Val(opt).new_population) }
        \cup { Val(Val(opt).ret) : x \in { y \in {0} : Val(opt).ret # None } }

\* C16: every Solution of the GeneticAlgorithm population is valid after
\* the initialization and after every generation, every offspring that
\* crossover with repair and mutation produce from it is valid, and the
\* Solution that optimize returns is valid.
C16_PopulationValid ==
    opt # None => \A sol \in GAHeld : SatisfiesInvariants(sol)

\* an offspring whose inherited assignments conflicted and were repaired,
\* and that was mutated afterwards, has joined the next population
C16_Witness ==
    /\ opt # None /\ Val(opt).pc = "offspring"
    /\ last.op = "offspring" /\ last.repaired /\ last.mutated
    /\ \E sol \in GAHeld : is_complete(sol)

\* ------------------------------------------------------------------
\* metaheuristics/simulated_annealing.py
\* (_compute_candidate_paths and _calculate_num_slots are the same code as
\* in genetic_algorithm.py)
\* ------------------------------------------------------------------

\* the temp_network of the neighbor operators: an empty grid with every
\* assignment of sol allocated, from index idx on, but those of skip
RECURSIVE AllocateOthers(_, _, _, _)
AllocateOthers(g, sol, skip, idx) ==
    IF idx >= Len(sol.assignments) THEN g
    ELSE IF sol.assignments[idx + 1] = None \/ idx \in skip
    THEN AllocateOthers(g, sol, skip, idx + 1)
    ELSE LET a == Val(sol.assignments[idx + 1])
         IN  AllocateOthers(allocate_spectrum(g, a.path, a.start_slot,
                                              a.num_slots).grid,
                            sol, skip, idx + 1)

TempNetworkWithout(sol, skip) == AllocateOthers(NetworkInit, sol, skip, 0)

\* the Solutions _neighbor_change_route can leave in place of sol
_neighbor_change_route(sol, candidate_paths) ==
    LET assigned_indices == AssignedIndices(sol)
        routed(idx) ==
            LET paths == candidate_paths[idx]
                current_assignment == AssignmentOf(sol, idx)
                other_paths == { paths[k] : k \in 1..Len(paths) }
                                    \ {current_assignment.path}
                temp_network == TempNetworkWithout(sol, {idx})
                removed == set_assignment(sol, idx, None)
                tried(new_path) ==
                    LET num_slots == _calculate_num_slots(new_path,
                                                          sol.demands[idx + 1])
                        start_slot ==
                            IF num_slots = None THEN None
                            ELSE first_fit(temp_network, new_path,
                                           Val(num_slots))
                    IN  IF start_slot = None THEN removed
                        ELSE set_assignment(removed, idx,
                                Some(SolAssignment(idx, new_path,
                                        Val(start_slot), Val(num_slots))))
            IN  IF Len(paths) <= 1 \/ other_paths = {} THEN {sol}
                ELSE { tried(new_path) : new_path \in other_paths }
    IN  IF assigned_indices = {} THEN {sol}
        ELSE UNION { routed(idx) : idx \in assigned_indices }

\* the Solutions _neighbor_shift_spectrum can leave in place of sol
_neighbor_shift_spectrum(sol) ==
    LET assigned_indices == AssignedIndices(sol)
        shifted(idx) ==
            LET current_assignment == AssignmentOf(sol, idx)
                temp_network == TempNetworkWithout(sol, {idx})
                removed == set_assignment(sol, idx, None)
                num_slots == current_assignment.num_slots
                current_start == current_assignment.start_slot
                search_range ==
                    Max2(0, current_start - 10)
                        ..(Min2(NumSlots - num_slots + 1,
                                current_start + 10) - 1)
                free == { s \in search_range :
                            is_spectrum_available(temp_network,
                                current_assignment.path, s, num_slots) }
            IN  IF free = {} THEN removed
                ELSE set_assignment(removed, idx,
                        Some(SolAssignment(idx, current_assignment.path,
                                           SetMin(free), num_slots)))
    IN  IF assigned_indices = {} THEN {sol}
        ELSE { shifted(idx) : idx \in assigned_indices }

\* _neighbor_swap_assignments without its two availability checks
_neighbor_swap_assignments_unchecked(sol) ==
    LET assigned_indices == AssignedIndices(sol)
        swapped(idx1, idx2) ==
            LET assign1 == AssignmentOf(sol, idx1)
                assign2 == AssignmentOf(sol, idx2)
            IN  IF assign1.num_slots # assign2.num_slots THEN sol
                ELSE set_assignment(
                        set_assignment(sol, idx1,
                            Some(SolAssignment(idx1, assign1.path,
                                    assign2.start_slot, assign1.num_slots))),
                        idx2,
                        Some(SolAssignment(idx2, assign2.path,
                                assign1.start_slot, assign2.num_slots)))
    IN  IF Cardinality(assigned_indices) < 2 THEN {sol}
        ELSE UNION { { swapped(idx1, idx2) :
                        idx2 \in assigned_indices \ {idx1} } :
                     idx1 \in assigned_indices }

\* the Solutions _neighbor_swap_assignments can leave in place of sol
_neighbor_swap_assignments(sol) ==
    LET assigned_indices == AssignedIndices(sol)
        swapped(idx1, idx2) ==
            LET assign1 == AssignmentOf(sol, idx1)
                assign2 == AssignmentOf(sol, idx2)
                temp_network == TempNetworkWithout(sol, {idx1, idx2})
                swap1_valid == is_spectrum_available(temp_network,
                    assign1.path, assign2.start_slot, assign1.num_slots)
                swap2_valid == is_spectrum_available(temp_network,
                    assign2.path, assign1.start_slot, assign2.num_slots)
            IN  IF assign1.num_slots # assign2.num_slots THEN sol
                ELSE IF ~(swap1_valid /\ swap2_valid) THEN sol
                ELSE set_assignment(
                        set_assignment(sol, idx1,
                            Some(SolAssignment(idx1, assign1.path,
                                    assign2.start_slot, assign1.num_slots))),
                        idx2,
                        Some(SolAssignment(idx2, assign2.path,
                                assign1.start_slot, assign2.num_slots)))
    IN  IF Cardinality(assigned_indices) < 2 THEN {sol}
        ELSE UNION { { swapped(idx1, idx2) :
                        idx2 \in assigned_indices \ {idx1} } :
                     idx1 \in assigned_indices }

\* the Solutions _neighbor_reassign can leave in place of sol
_neighbor_reassign(sol, candidate_paths) ==
    LET reassigned(idx) ==
            LET temp_network == TempNetworkWithout(sol, {idx})
                removed == set_assignment(sol, idx, None)
                paths == candidate_paths[idx]
                tried(path) ==
                    LET num_slots == _calculate_num_slots(path,
                                                          sol.demands[idx + 1])
                        start_slot ==
                            IF num_slots = None THEN None
                            ELSE first_fit(temp_network, path, Val(num_slots))
                    IN  IF start_slot = None THEN removed
                        ELSE set_assignment(removed, idx,
                                Some(SolAssignment(idx, path, Val(start_slot),
                                                   Val(num_slots))))
            IN  IF paths = <<>> THEN {removed}
                ELSE { tried(paths[k]) : k \in 1..Len(paths) }
    IN  UNION { reassigned(idx) : idx \in 0..(Len(sol.demands) - 1) }

Operators == {"change_route", "shift_spectrum", "swap_assignments", "reassign"}

\* the neighbors _generate_neighbor can return with the given operator
_generate_neighbor(sol, candidate_paths, operator) ==
    LET neighbor == copy(sol)
    IN  IF operator = "change_route"
        THEN _neighbor_change_route(neighbor, candidate_paths)
        ELSE IF operator = "shift_spectrum"
        THEN _neighbor_shift_spectrum(neighbor)
        ELSE IF operator = "swap_assignments"
        THEN _neighbor_swap_assignments(neighbor)
        ELSE _neighbor_reassign(neighbor, candidate_paths)

\* the parameters of the SimulatedAnnealing object
\* (simulated_annealing.py 27-36), with a short cooling schedule: the
\* temperature is multiplied by cooling_rate = 1 / cooling_divisor
SAParams ==
    [initial_temperature |-> 4, final_temperature |-> 1,
     cooling_divisor |-> 2, iterations_per_temp |-> 2, k_paths |-> 2]

NeighborDemands ==
    << [source |-> 0, destination |-> 2, bandwidth |-> 100],
       [source |-> 1, destination |-> 2, bandwidth |-> 100],
       [source |-> 0, destination |-> 1, bandwidth |-> 100] >>

NeighborCandidatePaths ==
    _compute_candidate_paths(NeighborDemands, SAParams.k_paths)

\* what a demand can hold: nothing, or one of its candidate paths with the
\* number of slots the path needs, at a start slot of the grid
PlacementsOf(demands, candidate_paths, idx) ==
    {None} \cup
    UNION { LET path == candidate_paths[idx][k]
                num_slots == _calculate_num_slots(path, demands[idx + 1])
            IN  IF num_slots = None THEN {}
                ELSE { Some(SolAssignment(idx, path, s, Val(num_slots))) :
                        s \in 0..(NumSlots - Val(num_slots)) } :
            k \in 1..Len(candidate_paths[idx]) }

\* the valid Solutions over the demands
ValidSolutions(network, demands, candidate_paths) ==
    { sol \in { [SolutionInit(network, demands) EXCEPT !.assignments = a] :
                a \in { a \in [1..Len(demands) ->
                            UNION { PlacementsOf(demands, candidate_paths, idx) :
                                    idx \in 0..(Len(demands) - 1) }] :
                        \A i \in 1..Len(demands) :
                            a[i] \in PlacementsOf(demands, candidate_paths,
                                                  i - 1) } } :
        validate(sol).is_valid }

\* the current solution is any valid Solution
InitNeighbor ==
    /\ impl = "core"
    /\ spectrum = NetworkInit
    /\ pre = spectrum
    /\ last = Constructed
    /\ nops = 0
    /\ assigned = <<>>
    /\ solution \in { Some(sol) :
            sol \in ValidSolutions(TheNetwork, NeighborDemands,
                                   NeighborCandidatePaths) }
    /\ clone = None
    /\ opt = None

\* neighbor = self._generate_neighbor(current_solution) with the operator
Neighbor_generate(operator) ==
    /\ \E neighbor \in _generate_neighbor(Val(solution),
                                          NeighborCandidatePaths, operator) :
        clone' = Some(neighbor)
    /\ last' = [op |-> operator]
    /\ UNCHANGED <<impl, spectrum, pre, nops, assigned, solution, opt>>

Neighbor_change_route == Neighbor_generate("change_route")

Neighbor_shift_spectrum == Neighbor_generate("shift_spectrum")

Neighbor_swap_assignments == Neighbor_generate("swap_assignments")

Neighbor_reassign == Neighbor_generate("reassign")

\* current_solution = neighbor
Neighbor_accept ==
    /\ clone # None
    /\ solution' = clone
    /\ last' = [op |-> "accept"]
    /\ UNCHANGED <<impl, spectrum, pre, nops, assigned, clone, opt>>

NextNeighbor ==
    \/ Neighbor_change_route
    \/ Neighbor_shift_spectrum
    \/ Neighbor_swap_assignments
    \/ Neighbor_reassign
    \/ Neighbor_accept

SpecNeighbor == InitNeighbor /\ [][NextNeighbor]_vars

\* the demands whose assignment differs between two Solutions
Changed(a, b) ==
    { idx \in 0..(Len(a.assignments) - 1) :
        a.assignments[idx + 1] # b.assignments[idx + 1] }

\* C17: every neighbor operator (change route, shift, swap, reassign)
\* applied to a valid Solution yields a valid Solution, the swap operator
\* never making the two swapped demands overlap each other; so the current
\* Solution and every neighbor are valid at every step.
C17_NeighborsValid ==
    /\ SatisfiesInvariants(Val(solution))
    /\ clone # None =>
        /\ SatisfiesInvariants(Val(clone))
        /\ last.op = "swap_assignments" =>
            \A i, j \in Changed(Val(solution), Val(clone)) :
                i # j => ~Overlap(AssignmentOf(Val(clone), i),
                                  AssignmentOf(Val(clone), j))

\* a swap has exchanged the start slots of two demands whose paths share a
\* link
C17_Witness ==
    /\ clone # None /\ last.op = "swap_assignments"
    /\ \E i, j \in Changed(Val(solution), Val(clone)) :
        /\ i # j
        /\ PathLinks(AssignmentOf(Val(clone), i).path)
            \cap PathLinks(AssignmentOf(Val(clone), j).path) # {}


(***************************************************************************)
(* src/src/metaheuristics/simulated_annealing.py: SimulatedAnnealing       *)
(* .optimize, run twice on the same network and demands with the same      *)
(* random draws                                                            *)
(***************************************************************************)
\* the body of the loop of _create_initial_solution for demand idx,
\* result being what ksp_mw_assign came to
CreateStep(st, idx, result) ==
    IF result.exc # NoException THEN [st EXCEPT !.exc = result.exc]
    ELSE IF result.ret = None THEN [st EXCEPT !.temp_network = result.grid]
    ELSE [st EXCEPT
            !.temp_network = result.grid,
            !.solution = set_assignment(st.solution, idx,
                Some(SolAssignment(idx, Val(result.ret).path,
                        Val(result.ret).start_slot,
                        Val(result.ret).num_slots)))]

RECURSIVE CreateFrom(_, _, _, _, _)
\* the loop of _create_initial_solution over sorted_indices, from the n-th
\* on; st holds the solution, temp_network and a raised exception
CreateFrom(st, demands, sorted_indices, n, k_paths) ==
    IF n > Len(sorted_indices) \/ st.exc # NoException THEN st
    ELSE CreateFrom(
            CreateStep(st, sorted_indices[n],
                       ksp_mw_assign(st.temp_network,
                                     demands[sorted_indices[n] + 1],
                                     k_paths)),
            demands, sorted_indices, n + 1, k_paths)

\* SimulatedAnnealing._create_initial_solution: the solution, or the
\* exception it raised
_create_initial_solution(network, demands, k_paths) ==
    CreateFrom([solution |-> SolutionInit(network, demands),
                temp_network |-> NetworkInit,
                exc |-> NoException],
               demands, SortedByBandwidth(demands), 1, k_paths)

\* _acceptance_probability with the comparison of its first test reversed
_acceptance_probability_reversed(current_fitness, neighbor_fitness, temperature) ==
    IF FloatLess(current_fitness, neighbor_fitness) THEN "1.0"
    ELSE IF current_fitness.inf \/ neighbor_fitness.inf THEN "0.0"
    ELSE "between"

\* SimulatedAnnealing._acceptance_probability: "1.0", "0.0" or "between".
\* math.exp(-delta / temperature) of a delta >= 0 is 1.0 at delta = 0, 0.0
\* once the quotient passes 746 (a double underflows), and a probability
\* strictly between otherwise
_acceptance_probability(current_fitness, neighbor_fitness, temperature) ==
    IF FloatLess(neighbor_fitness, current_fitness) THEN "1.0"
    ELSE IF current_fitness.inf \/ neighbor_fitness.inf THEN "0.0"
    ELSE
    LET delta == neighbor_fitness.value - current_fitness.value
    IN  IF delta = 0 THEN "1.0"
        ELSE IF delta >= 746 * temperature THEN "0.0"
        ELSE "between"

\* random.random() < accept_prob: random() lies in [0, 1); of a probability
\* between 0 and 1 the draw decides
Accepts(accept_prob, u) ==
    IF accept_prob = "1.0" THEN TRUE
    ELSE IF accept_prob = "0.0" THEN FALSE
    ELSE u = "low"

RECURSIVE NthOf(_, _)
NthOf(S, n) ==
    LET x == CHOOSE x \in S : TRUE
    IN  IF n = 0 THEN x ELSE NthOf(S \ {x}, n - 1)

\* the outcome the random choices of an operator settle on: the draw
\* selects one of the outcomes the operator can produce
DrawnFrom(S, pick) == NthOf(S, pick % Cardinality(S))

\* what one iteration draws: the operator, the choices inside it, and the
\* random() of the acceptance test
Draws == [operator : Operators, pick : 0..1, u : {"low", "high"}]

SADemandLists ==
    { << [source |-> 0, destination |-> 2, bandwidth |-> 100] >>,
      << [source |-> 0, destination |-> 3, bandwidth |-> 100] >>,
      << [source |-> 0, destination |-> 3, bandwidth |-> 100],
         [source |-> 0, destination |-> 4, bandwidth |-> 100] >> }

\* the parameters of a run: two temperature levels of one iteration, one
\* level of two iterations, and a start at the final temperature
SAConfigs ==
    { [SAParams EXCEPT !.iterations_per_temp = 1],
      [SAParams EXCEPT !.initial_temperature = 2],
      [SAParams EXCEPT !.initial_temperature = 1] }

Runs == {1, 2}

\* a run that has not started
NewRun ==
    [pc |-> "initialize", current_solution |-> None,
     current_fitness |-> None, best_solution |-> None,
     best_fitness |-> None, temperature |-> None,
     iteration |-> 0, inner |-> 0, accepted_count |-> 0,
     history |-> <<>>, visited |-> <<>>, ret |-> None,
     exc |-> NoException]

InitSA ==
    /\ impl = "core"
    /\ spectrum = NetworkInit
    /\ pre = spectrum
    /\ last = Constructed
    /\ nops = 0
    /\ assigned = <<>>
    /\ solution = None
    /\ clone = None
    /\ \E demands \in SADemandLists, verbose \in BOOLEAN,
          params \in SAConfigs :
        opt = Some([demands |-> demands, verbose |-> verbose,
                    params |-> params, tape |-> <<>>,
                    runs |-> [r \in Runs |-> NewRun]])

\* while temperature > self.final_temperature
LoopOrFinish(params, temperature) ==
    IF temperature > params.final_temperature THEN "iterate" ELSE "finish"

\* current_solution, current_fitness, best_solution, best_fitness,
\* temperature as optimize binds them before the loop; fit is what
\* current_solution.calculate_fitness() came to
Started(run, params, fit) ==
    [run EXCEPT
        !.current_solution = Some(fit.sol),
        !.current_fitness = Some(fit.ret),
        !.best_solution = Some(copy(fit.sol)),
        !.best_fitness = Some(fit.ret),
        !.visited = << [assignments |-> fit.sol.assignments,
                        fitness |-> fit.ret] >>,
        !.temperature = Some(params.initial_temperature),
        !.pc = LoopOrFinish(params, params.initial_temperature)]

\* optimize up to the main loop, created being what
\* _create_initial_solution came to
Initialized(run, params, created) ==
    IF created.exc # NoException
    THEN [run EXCEPT !.exc = created.exc, !.pc = "done"]
    ELSE Started(run, params, calculate_fitness(created.solution))

\* optimize up to the main loop: the initial solution, its fitness, the
\* best-so-far copy
SA_initialize(r) ==
    /\ opt # None /\ Val(opt).runs[r].pc = "initialize"
    /\ opt' = Some([Val(opt) EXCEPT !.runs[r] =
            Initialized(Val(opt).runs[r], Val(opt).params,
                _create_initial_solution(TheNetwork, Val(opt).demands,
                                         Val(opt).params.k_paths))])
    /\ last' = [op |-> "initialize", run |-> r]
    /\ UNCHANGED <<impl, spectrum, pre, nops, assigned, solution, clone>>

\* the acceptance decision and the update of the best of one iteration,
\* fit being what neighbor.calculate_fitness() came to
Decided(run, params, accepted, fit) ==
    LET improved == accepted /\ FloatLess(fit.ret, Val(run.best_fitness))
        inner == run.inner + 1
    IN  [run EXCEPT
            !.current_solution = IF accepted THEN Some(fit.sol) ELSE @,
            !.current_fitness = IF accepted THEN Some(fit.ret) ELSE @,
            !.accepted_count = IF accepted THEN @ + 1 ELSE @,
            !.best_solution = IF improved THEN Some(copy(fit.sol)) ELSE @,
            !.best_fitness = IF improved THEN Some(fit.ret) ELSE @,
            !.visited =
                IF accepted
                THEN Append(@, [assignments |-> fit.sol.assignments,
                                fitness |-> fit.ret])
                ELSE @,
            !.iteration = @ + 1,
            !.inner = inner,
            !.pc = IF inner >= params.iterations_per_temp
                   THEN "cool" ELSE "iterate"]

\* random.random() < accept_prob for the neighbor of fitness fit.ret
Judged(run, params, draw, fit) ==
    Decided(run, params,
            Accepts(_acceptance_probability(Val(run.current_fitness),
                        fit.ret, Val(run.temperature)),
                    draw.u),
            fit)

\* one pass of the body of the for loop with the draw of this iteration
Iterated(run, demands, params, draw) ==
    Judged(run, params, draw,
           calculate_fitness(DrawnFrom(
                _generate_neighbor(Val(run.current_solution),
                    _compute_candidate_paths(demands, params.k_paths),
                    draw.operator),
                draw.pick)))

\* a run takes its next draw from the tape; the run that is ahead draws it
SA_iterate(r) ==
    /\ opt # None /\ Val(opt).runs[r].pc = "iterate"
    /\ LET run == Val(opt).runs[r]
           tape == Val(opt).tape
       IN  \E draw \in Draws :
            /\ run.iteration < Len(tape) => draw = tape[run.iteration + 1]
            /\ opt' = Some([Val(opt) EXCEPT
                    !.tape = IF run.iteration < Len(tape) THEN @
                             ELSE Append(@, draw),
                    !.runs[r] = Iterated(run, Val(opt).demands,
                                         Val(opt).params, draw)])
    /\ last' = [op |-> "iterate", run |-> r]
    /\ UNCHANGED <<impl, spectrum, pre, nops, assigned, solution, clone>>

\* the end of a temperature level: record the history, cool down
SA_cool(r) ==
    /\ opt # None /\ Val(opt).runs[r].pc = "cool"
    /\ LET run == Val(opt).runs[r]
           temperature == Val(run.temperature)
                            \div Val(opt).params.cooling_divisor
       IN  opt' = Some([Val(opt) EXCEPT !.runs[r] =
                [run EXCEPT
                    !.history = Append(@,
                        [temperature |-> Val(run.temperature),
                         best_fitness |-> Val(run.best_fitness),
                         current_fitness |-> Val(run.current_fitness),
                         accepted_count |-> run.accepted_count]),
                    !.accepted_count = 0,
                    !.inner = 0,
                    !.temperature = Some(temperature),
                    !.pc = LoopOrFinish(Val(opt).params, temperature)]])
    /\ last' = [op |-> "cool", run |-> r]
    /\ UNCHANGED <<impl, spectrum, pre, nops, assigned, solution, clone>>

\* after the loop: with verbose, best_solution.get_metrics() applies the
\* solution to the network and asks it for get_max_slot_used; then return
SA_return(r) ==
    /\ opt # None /\ Val(opt).runs[r].pc = "finish"
    /\ LET run == Val(opt).runs[r]
           applied == apply_to_network(spectrum, Val(run.best_solution))
       IN  IF Val(opt).verbose
           THEN /\ opt' = Some([Val(opt) EXCEPT !.runs[r] =
                        [run EXCEPT !.exc = AttributeErrorIn(applied),
                                    !.pc = "done"]])
                /\ spectrum' = applied.grid
           ELSE /\ opt' = Some([Val(opt) EXCEPT !.runs[r] =
                        [run EXCEPT !.ret = run.best_solution,
                                    !.pc = "done"]])
                /\ spectrum' = spectrum
    /\ last' = [op |-> "return", run |-> r]
    /\ UNCHANGED <<impl, pre, nops, assigned, solution, clone>>

NextSA ==
    \/ \E r \in Runs : SA_initialize(r)
    \/ \E r \in Runs : SA_iterate(r)
    \/ \E r \in Runs : SA_cool(r)
    \/ \E r \in Runs : SA_return(r)

SpecSA == InitSA /\ [][NextSA]_vars

\* a <= b on fitness values
FloatLeq(a, b) == ~FloatLess(b, a)

\* C18: at every step of SimulatedAnnealing.optimize past the
\* initialization there is a best-so-far fitness, it is at most the fitness
\* of the initial solution and of every solution that has been current, it
\* never increases from one temperature level to the next, and when
\* optimize ends it returns a Solution of that fitness that was the current
\* solution at some step.
C18_BestSoFar ==
    \A r \in Runs :
        LET run == Val(opt).runs[r]
        IN  run.pc # "initialize" =>
            /\ run.best_fitness # None
            /\ \A n \in 1..Len(run.visited) :
                FloatLeq(Val(run.best_fitness), run.visited[n].fitness)
            /\ \A n \in 1..Len(run.history) :
                /\ FloatLeq(Val(run.best_fitness),
                            run.history[n].best_fitness)
                /\ \A m \in 1..n :
                    FloatLeq(run.history[n].best_fitness,
                             run.history[m].best_fitness)
            /\ run.pc = "done" =>
                /\ run.ret # None
                /\ FromScratch(Val(run.ret)) = Val(run.best_fitness)
                /\ \E n \in 1..Len(run.visited) :
                    run.visited[n].assignments = Val(run.ret).assignments

\* C19: two runs of SimulatedAnnealing.optimize on the same network,
\* demands and parameters that take their random draws from the same tape
\* have visited the same current solutions whenever they stand at the same
\* iteration, and once both have ended both have returned a Solution and
\* the two best fitnesses are equal.
C19_SameDraws ==
    LET first == Val(opt).runs[1]
        second == Val(opt).runs[2]
    IN  /\ ( /\ first.pc \notin {"initialize", "done"}
             /\ second.pc \notin {"initialize", "done"}
             /\ first.iteration = second.iteration ) =>
                /\ first.visited = second.visited
                /\ first.current_solution = second.current_solution
                /\ first.best_fitness = second.best_fitness
        /\ (first.pc = "done" /\ second.pc = "done") =>
                /\ first.ret # None
                /\ second.ret # None
                /\ FromScratch(Val(first.ret)) = FromScratch(Val(second.ret))
                /\ first.visited = second.visited

(***************************************************************************)
(* src/algorithms.py: run_sp_ff and class GeneticOptimizer                 *)
(***************************************************************************)
TypeError == "TypeError"

\* the end of run_sp_ff's loop body for one demand, done being what the
\* loop over its paths came to
RunStep(st, done) ==
    [net |-> done.grid,
     assigned_count |-> st.assigned_count
                        + (IF done.ret = None THEN 0 ELSE 1)]

RECURSIVE RunFrom(_, _, _, _)
\* run_sp_ff's loop over the demands, from the n-th on
RunFrom(st, demands, n, k) ==
    IF n > Len(demands) THEN st
    ELSE RunFrom(RunStep(st, run_sp_ff_demand(st.net, demands[n], k)),
                 demands, n + 1, k)

\* the dictionary run_sp_ff returns, the utilization given by the number
\* of occupied slots it is computed from
RunResult(st, total) ==
    [assigned |-> st.assigned_count,
     total |-> total,
     used_slots |-> Cardinality({ cell \in (DOMAIN st.net) \X Slots :
                                    st.net[cell[1]][cell[2]] }),
     max_slot |-> get_max_slot_used(st.net)]

\* run_sp_ff(topology, demands, k, num_slots)
run_sp_ff(demands, k) ==
    RunResult(RunFrom([net |-> vf_NetworkInit, assigned_count |-> 0],
                      demands, 1, k),
              Len(demands))

\* GeneticOptimizer._precompute_paths: self.path_cache
_precompute_paths(demands, k) ==
    [key \in { <<demands[i].source, demands[i].destination>> :
                i \in 1..Len(demands) } |->
        vf_get_k_shortest_paths(key[1], key[2], k)]

\* EvaluateStep counting the demand without keeping the grid that
\* net.allocate marked
EvaluateStep_without_allocate(st, done) ==
    IF done.ret = None THEN st
    ELSE [net |-> st.net,
          assigned |-> st.assigned + 1,
          sum_start_indices |-> st.sum_start_indices
                                + Val(done.ret).start_slot]

\* the end of the loop body of _evaluate_fitness for one demand, done
\* being what the loop over its paths came to
EvaluateStep(st, done) ==
    IF done.ret = None THEN st
    ELSE [net |-> done.grid,
          assigned |-> st.assigned + 1,
          sum_start_indices |-> st.sum_start_indices
                                + Val(done.ret).start_slot]

\* self.path_cache.get((src, dst), []) of a demand
CachedPaths(path_cache, demand) ==
    path_cache[<<demand.source, demand.destination>>]

RECURSIVE EvaluateFrom(_, _, _, _, _)
\* the loop of _evaluate_fitness over ordered_demands, from the n-th on
EvaluateFrom(st, demands, path_cache, chromosome, n) ==
    IF n > Len(chromosome) THEN st
    ELSE EvaluateFrom(
            EvaluateStep(st,
                TryPaths(st.net,
                         CachedPaths(path_cache,
                                     demands[chromosome[n] + 1]),
                         1, demands[chromosome[n] + 1].bandwidth)),
            demands, path_cache, chromosome, n + 1)

\* what _evaluate_fitness returns.  The score
\* assigned * 1_000_000_000 + (num_slots - max_slot) * 1_000_000
\* - sum_start_indices is kept as its two summands: billions counts the
\* 1_000_000_000s, units is the rest
Score(num_slots, st, max_slot) ==
    [score |-> [billions |-> st.assigned,
                units |-> (num_slots - max_slot) * 1000000
                          - st.sum_start_indices],
     max_slot |-> max_slot,
     assigned |-> st.assigned,
     sum_start_indices |-> st.sum_start_indices]

\* max_slot = net.get_max_slot_used() and the score
Scored(num_slots, st) == Score(num_slots, st, get_max_slot_used(st.net))

\* GeneticOptimizer._evaluate_fitness
_evaluate_fitness(num_slots, demands, path_cache, chromosome) ==
    Scored(num_slots,
           EvaluateFrom([net |-> vf_NetworkInit, assigned |-> 0,
                         sum_start_indices |-> 0],
                        demands, path_cache, chromosome, 1))

\* a > b on scores: a.billions * 10^9 + a.units > b.billions * 10^9 +
\* b.units, computed without leaving the 32-bit integers
ScoreGreater(a, b) ==
    LET d == a.billions - b.billions
    IN  IF d >= 3 THEN TRUE
        ELSE IF d <= -3 THEN FALSE
        ELSE d * 1000000000 > b.units - a.units

\* what an operator on chromosomes ends with: an exception or a chromosome
Raises(exc) == [exc |-> exc, chrome |-> <<>>]

Yields(chrome) == [exc |-> NoException, chrome |-> chrome]

\* the outcomes of an operator applied to every outcome of another
Then(outcomes, F(_)) ==
    UNION { IF o.exc # NoException THEN {o} ELSE F(o.chrome) :
            o \in outcomes }

\* sorted(self.rng.sample(range(size), 2)): the pairs a < b of 0..size-1
SortedPairs(size) ==
    { pair \in (0..(size - 1)) \X (0..(size - 1)) : pair[1] < pair[2] }

\* GeneticOptimizer._mutate_swap
_mutate_swap(chrome) ==
    IF Len(chrome) < 2 THEN {Raises(ValueError)}
    ELSE { Yields([chrome EXCEPT ![pair[1] + 1] = chrome[pair[2] + 1],
                                 ![pair[2] + 1] = chrome[pair[1] + 1]]) :
            pair \in SortedPairs(Len(chrome)) }

\* GeneticOptimizer._mutate_scramble: chrome[a:b] shuffled in place
_mutate_scramble(chrome) ==
    IF Len(chrome) < 2 THEN {Raises(ValueError)}
    ELSE UNION {
            { Yields(<<>> \o [i \in 1..Len(chrome) |->
                    IF pair[1] < i /\ i <= pair[2]
                    THEN chrome[pair[1] + 1 + order[i - pair[1]]]
                    ELSE chrome[i]]) :
                order \in Shuffles(pair[2] - pair[1]) } :
            pair \in SortedPairs(Len(chrome)) }

\* GeneticOptimizer._mutate_shift_priority: chrome.pop(idx) put in front
_mutate_shift_priority(chrome) ==
    LET size == Len(chrome)
    IN  IF size = 0 THEN {Raises(ValueError)}
        ELSE { Yields(<< chrome[idx + 1] >>
                      \o SubSeq(chrome, 1, idx)
                      \o SubSeq(chrome, idx + 2, size)) :
                idx \in (size \div 2)..(size - 1) }

RECURSIVE FillFrom_unchecked(_, _, _, _, _, _)
\* the for loop of _crossover_ox1 without the while loop that skips the
\* genes already in child
FillFrom_unchecked(child, p2, a, b, i, current_p2) ==
    IF i >= Len(child) THEN child
    ELSE IF i >= a /\ i < b
    THEN FillFrom_unchecked(child, p2, a, b, i + 1, current_p2)
    ELSE FillFrom_unchecked([child EXCEPT ![i + 1] = p2[current_p2 + 1]],
                            p2, a, b, i + 1, current_p2 + 1)

RECURSIVE FillFrom(_, _, _, _, _, _)
\* the for loop of _crossover_ox1 from position i on (0-based); child holds
\* -1 where nothing is placed yet
FillFrom(child, p2, a, b, i, current_p2) ==
    IF i >= Len(child) THEN child
    ELSE IF i >= a /\ i < b
    THEN FillFrom(child, p2, a, b, i + 1, current_p2)
    ELSE
    LET placed == { child[n] : n \in 1..Len(child) }
        next == CHOOSE c \in current_p2..(Len(p2) - 1) :
                    /\ p2[c + 1] \notin placed
                    /\ \A e \in current_p2..(c - 1) : p2[e + 1] \in placed
    IN  FillFrom([child EXCEPT ![i + 1] = p2[next + 1]], p2, a, b,
                 i + 1, next)

\* the child _crossover_ox1 builds once a, b are drawn: child[a:b] = p1[a:b]
\* and the for loop
CrossoverAt(p1, p2, a, b) ==
    FillFrom(<<>> \o [i \in 1..Len(p1) |->
                        IF a < i /\ i <= b THEN p1[i] ELSE -1],
             p2, a, b, 0, 0)

\* GeneticOptimizer._crossover_ox1
_crossover_ox1(p1, p2) ==
    LET size == Len(p1)
    IN  IF size < 2 THEN {Raises(ValueError)}
        ELSE { Yields(CrossoverAt(p1, p2, pair[1], pair[2])) :
                pair \in SortedPairs(size) }

\* max(sample, key=score): the first element of the sample that no other
\* element exceeds
FirstMax(sample) ==
    sample[CHOOSE i \in 1..Len(sample) :
            /\ \A j \in 1..Len(sample) :
                ~ScoreGreater(sample[j].score, sample[i].score)
            /\ \A j \in 1..(i - 1) :
                \E m \in 1..Len(sample) :
                    ScoreGreater(sample[m].score, sample[j].score)]

\* GeneticOptimizer._tournament: the best of 4 sampled individuals
_tournament(scored_pop) ==
    IF Len(scored_pop) < 4 THEN {Raises(ValueError)}
    ELSE { Yields(FirstMax([i \in 1..4 |-> scored_pop[sample[i]]]).chrom) :
            sample \in Samples(Len(scored_pop), 4) }

\* the LPF seed: the demand indices by descending (distance of the first
\* cached path, index)
LpfChrome(demands, path_cache) ==
    LET size == Len(demands)
        dist(i) ==
            LET paths == path_cache[<<demands[i + 1].source,
                                      demands[i + 1].destination>>]
            IN  IF paths # <<>> THEN get_path_distance(paths[1]) ELSE 0
        before(j, i) == dist(j) > dist(i) \/ (dist(j) = dist(i) /\ j > i)
    IN  <<>> \o [n \in 1..size |->
                    CHOOSE i \in 0..(size - 1) :
                        Cardinality({ j \in 0..(size - 1) : before(j, i) })
                            = n - 1]

\* a population of count individuals drawn from the outcomes: an exception
\* when a draw can raise, a list of chromosomes otherwise
Drawn(first, outcomes, count) ==
    { [exc |-> o.exc, population |-> <<>>] :
        o \in { o \in outcomes : o.exc # NoException } }
    \cup
    { [exc |-> NoException, population |-> first \o rest] :
        rest \in [1..count -> { o.chrome : o \in { o \in outcomes :
                                            o.exc = NoException } }] }

\* steps 1 and 2 of optimize: the seed and its mutated clones
InitialPopulations(params, demands, path_cache) ==
    LET lpf_chrome == LpfChrome(demands, path_cache)
    IN  IF params.pop_size <= 1
        THEN { [exc |-> NoException, population |-> << lpf_chrome >>] }
        ELSE Drawn(<< lpf_chrome >>,
                   _mutate_swap(lpf_chrome)
                        \cup _mutate_scramble(lpf_chrome)
                        \cup _mutate_shift_priority(lpf_chrome),
                   params.pop_size - 1)

GOParams == [pop_size |-> 4, num_slots |-> NumSlots, k_paths |-> 2]

GOGenerations == {0, 2, 14}

GODemandLists ==
    { << [source |-> 0, destination |-> 2, bandwidth |-> 100],
         [source |-> 1, destination |-> 2, bandwidth |-> 200],
         [source |-> 0, destination |-> 1, bandwidth |-> 300] >>,
      << [source |-> 0, destination |-> 2, bandwidth |-> 100] >> }

\* the chromosomes over a demand list: the orders of its indices
Chromosomes(demands) ==
    { <<>> \o order : order \in Shuffles(Len(demands)) }

\* _evaluate_fitness of every chromosome of every demand list, computed
\* once (@@ makes the table explicit)
EvaluatedFitness ==
    <<>> @@ [key \in UNION { {demands} \X Chromosomes(demands) :
                            demands \in GODemandLists } |->
        _evaluate_fitness(GOParams.num_slots, key[1],
                          _precompute_paths(key[1], GOParams.k_paths),
                          key[2])]

\* fitness_data of a population, sorted by descending score (the sort is
\* stable)
FitnessData(demands, population) ==
    LET data == <<>> \o [i \in 1..Len(population) |->
                    [chrom |-> population[i]]
                    @@ EvaluatedFitness[<<demands, population[i]>>]]
        before(j, i) == \/ ScoreGreater(data[j].score, data[i].score)
                        \/ /\ ~ScoreGreater(data[i].score, data[j].score)
                           /\ j < i
    IN  <<>> \o [n \in 1..Len(data) |->
            data[CHOOSE i \in 1..Len(data) :
                    Cardinality({ j \in 1..Len(data) : before(j, i) })
                        = n - 1]]

\* the mutation of a child: none, or one of the three operators
MutatedChild(child) ==
    {Yields(child)} \cup _mutate_swap(child) \cup _mutate_scramble(child)
    \cup _mutate_shift_priority(child)

\* one child of the selection and crossover step
Children(fitness_data) ==
    LET selected == _tournament(fitness_data)
        parents == { o.chrome : o \in { o \in selected :
                                        o.exc = NoException } }
    IN  UNION { Then(_crossover_ox1(pair[1], pair[2]), MutatedChild) :
                pair \in parents \X parents }
        \cup { o \in selected : o.exc # NoException }

\* one individual of the population a cataclysm builds around best_chrome
CataclysmClones(best_chrome) ==
    Then(Then(_mutate_scramble(best_chrome), _mutate_shift_priority),
         LAMBDA c : {Yields(c)} \cup _mutate_swap(c))

InitGO ==
    /\ impl = "final"
    /\ spectrum = vf_NetworkInit
    /\ pre = spectrum
    /\ last = Constructed
    /\ nops = 0
    /\ assigned = <<>>
    /\ solution = None
    /\ clone = None
    /\ \E demands \in GODemandLists, generations \in GOGenerations :
        opt = Some([pc |-> "initialize", demands |-> demands,
                    params |-> GOParams, generations |-> generations,
                    path_cache |-> <<>> @@ _precompute_paths(demands,
                                                GOParams.k_paths),
                    population |-> <<>>, best_chrome |-> None,
                    best_fitness |-> None, global_best_assigned |-> 0,
                    global_best_msi |-> GOParams.num_slots,
                    stagnation_counter |-> 0, gen |-> 0,
                    ret |-> None, exc |-> NoException])

\* optimize up to the loop over the generations
GO_initialize ==
    /\ opt # None /\ Val(opt).pc = "initialize"
    /\ \E drawn \in InitialPopulations(Val(opt).params, Val(opt).demands,
                                       Val(opt).path_cache) :
        opt' = Some(IF drawn.exc # NoException
                    THEN [Val(opt) EXCEPT !.exc = drawn.exc, !.pc = "done"]
                    ELSE [Val(opt) EXCEPT !.population = drawn.population,
                                          !.pc = "loop"])
    /\ last' = [op |-> "initialize"]
    /\ UNCHANGED <<impl, spectrum, pre, nops, assigned, solution, clone>>

\* Ranked without the reset of the stagnation counter on an improvement
Ranked_without_reset(go, current_top) ==
    LET improved_msi == current_top.max_slot < go.global_best_msi
        improved_asg == current_top.assigned > go.global_best_assigned
        better == \/ go.best_fitness = None
                  \/ ScoreGreater(current_top.score, Val(go.best_fitness))
    IN  [go EXCEPT
            !.global_best_msi =
                IF improved_msi THEN current_top.max_slot ELSE @,
            !.global_best_assigned =
                IF improved_asg THEN current_top.assigned ELSE @,
            !.best_fitness = IF better THEN Some(current_top.score) ELSE @,
            !.best_chrome = IF better THEN Some(current_top.chrom) ELSE @,
            !.stagnation_counter = @ + 1]

\* the bookkeeping of one generation up to the stagnation counter,
\* current_top being fitness_data[0]
Ranked(go, current_top) ==
    LET improved_msi == current_top.max_slot < go.global_best_msi
        improved_asg == current_top.assigned > go.global_best_assigned
        better == \/ go.best_fitness = None
                  \/ ScoreGreater(current_top.score, Val(go.best_fitness))
    IN  [go EXCEPT
            !.global_best_msi =
                IF improved_msi THEN current_top.max_slot ELSE @,
            !.global_best_assigned =
                IF improved_asg THEN current_top.assigned ELSE @,
            !.best_fitness = IF better THEN Some(current_top.score) ELSE @,
            !.best_chrome = IF better THEN Some(current_top.chrom) ELSE @,
            !.stagnation_counter =
                IF improved_msi \/ improved_asg THEN 0 ELSE @ + 1]

\* the populations the rest of the loop body can build: by a cataclysm
\* when the stagnation counter has reached 12, by elitism, selection,
\* crossover and mutation otherwise
NextPopulations(go, fitness_data, elite_count) ==
    IF go.stagnation_counter >= 12
    THEN Drawn(<< Val(go.best_chrome) >>,
               CataclysmClones(Val(go.best_chrome)), go.params.pop_size - 1)
    ELSE IF Min2(elite_count, Len(fitness_data)) >= go.params.pop_size
    THEN { [exc |-> NoException,
            population |-> Prefix([i \in 1..Len(fitness_data) |->
                                    fitness_data[i].chrom], elite_count)] }
    ELSE Drawn(Prefix([i \in 1..Len(fitness_data) |->
                        fitness_data[i].chrom], elite_count),
               Children(fitness_data),
               go.params.pop_size - Min2(elite_count, Len(fitness_data)))

\* the end of the loop body with the population drawn
Bred(go, drawn) ==
    IF drawn.exc # NoException
    THEN [go EXCEPT !.exc = drawn.exc, !.pc = "done"]
    ELSE [go EXCEPT
            !.population = drawn.population,
            !.stagnation_counter = IF @ >= 12 THEN 0 ELSE @,
            !.gen = @ + 1]

\* the states one pass of the loop body can end in
Generation(go, fitness_data) ==
    { Bred(go, drawn) :
        drawn \in NextPopulations(go, fitness_data,
                        Max2(2, go.params.pop_size \div 10)) }

\* the stagnation counter of the generation go is about to run, as it
\* stands when the loop body tests it for the cataclysm
Counted(go) ==
    Ranked(go, FitnessData(go.demands, go.population)[1]).stagnation_counter

\* one pass of the body of for gen in range(self.generations)
GO_generation ==
    /\ opt # None /\ Val(opt).pc = "loop"
    /\ Val(opt).gen < Val(opt).generations
    /\ \E fitness_data \in { FitnessData(Val(opt).demands,
                                         Val(opt).population) } :
        \E go \in Generation(Ranked(Val(opt), fitness_data[1]),
                              fitness_data) :
            opt' = Some(go)
    /\ last' = [op |-> "generation",
                cataclysm |-> Counted(Val(opt)) >= 12]
    /\ UNCHANGED <<impl, spectrum, pre, nops, assigned, solution, clone>>

\* after the loop: the demands in the order of best_chrome go to run_sp_ff
GO_return ==
    /\ opt # None /\ Val(opt).pc = "loop"
    /\ Val(opt).gen >= Val(opt).generations
    /\ LET go == Val(opt)
       IN  opt' = Some(
            IF go.best_chrome = None
            THEN [go EXCEPT !.exc = TypeError, !.pc = "done"]
            ELSE [go EXCEPT
                    !.ret = Some(run_sp_ff(
                        [n \in 1..Len(Val(go.best_chrome)) |->
                            go.demands[Val(go.best_chrome)[n] + 1]],
                        go.params.k_paths)),
                    !.pc = "done"])
    /\ last' = [op |-> "return"]
    /\ UNCHANGED <<impl, spectrum, pre, nops, assigned, solution, clone>>

NextGO ==
    \/ GO_initialize
    \/ GO_generation
    \/ GO_return

SpecGO == InitGO /\ [][NextGO]_vars

\* C20: a run of GeneticOptimizer.optimize with generations = 0 ends without
\* an exception and returns the result of the best individual of the
\* seeded initial population (as many demands assigned and the same highest
\* slot as evaluating that individual gives).
C20_ZeroGenerations ==
    LET go == Val(opt)
    IN  (go.pc = "done" /\ go.generations = 0) =>
            /\ go.exc = NoException
            /\ go.ret # None
            /\ LET best == FitnessData(go.demands, go.population)[1]
               IN  /\ Val(go.ret).assigned = best.assigned
                   /\ Val(go.ret).max_slot = best.max_slot

(***************************************************************************)
(* SP-FF on an empty grid                                                  *)
(***************************************************************************)
\* the simple paths from source to destination no other one is shorter than
ShortestPaths(source, destination) ==
    LET between == { p \in SimplePaths :
                        p[1] = source /\ p[Len(p)] = destination }
    IN  { p \in between : \A q \in between :
            get_path_distance(p) <= get_path_distance(q) }

\* the rows of the modulation table that reach the distance and that no
\* earlier row reaches
FirstRows(distance_km) ==
    { i \in 1..Len(MODULATION_FORMATS) :
        /\ distance_km <= MODULATION_FORMATS[i].max_reach
        /\ \A j \in 1..(i - 1) :
            MODULATION_FORMATS[j].max_reach < distance_km }

\* the slot count a row gives a bandwidth: its slots per 100 Gbps for every
\* started 100 Gbps, and a guard slot on each side
RowSlots(i, bandwidth) ==
    CeilDiv(bandwidth, 100) * MODULATION_FORMATS[i].slots_per_100gbps + 2

MalformedDemands ==
    { [source |-> 0, destination |-> 0, bandwidth |-> 100],
      [source |-> 2, destination |-> 2, bandwidth |-> 300],
      [source |-> 0, destination |-> 1, bandwidth |-> 0],
      [source |-> 0, destination |-> 2, bandwidth |-> -100],
      [source |-> 1, destination |-> 2, bandwidth |-> -200] }

InitInput ==
    /\ impl = "core"
    /\ spectrum = NetworkInit
    /\ pre = spectrum
    /\ last = Constructed
    /\ nops = 0
    /\ assigned = <<>>
    /\ solution = None
    /\ clone = None
    /\ opt = None

Malformed_sp_ff_assign ==
    /\ nops < MaxOps
    /\ \E demand \in MalformedDemands :
        Assign("sp_ff_assign", demand, 1, sp_ff_assign(spectrum, demand))

Malformed_ksp_mw_assign ==
    /\ nops < MaxOps
    /\ \E demand \in MalformedDemands, k \in KChoices :
        Assign("ksp_mw_assign", demand, k,
               ksp_mw_assign(spectrum, demand, k))

NextInput ==
    \/ Call_sp_ff_assign
    \/ Call_ksp_mw_assign
    \/ Malformed_sp_ff_assign
    \/ Malformed_ksp_mw_assign

SpecInput == InitInput /\ [][NextInput]_vars

\* source equal to destination, or bandwidth not positive
Malformed(demand) ==
    demand.source = demand.destination \/ demand.bandwidth <= 0

\* C22: a call of sp_ff_assign or ksp_mw_assign with a malformed demand
\* (source equal to destination, or bandwidth not positive) returns no
\* assignment and leaves the grid as it was.
C22_MalformedRejected ==
    (last.op \in {"sp_ff_assign", "ksp_mw_assign"} /\ Malformed(last.demand))
        => /\ last.ret = None
           /\ spectrum = pre


\* C23: a neighbor operator whose candidate move is infeasible leaves the
\* assignments as they were before the call, so no operator returns a
\* neighbor in which a demand that was assigned has become unassigned.
C23_NoDemandDropped ==
    (clone # None /\ last.op \in Operators) =>
        \A idx \in AssignedIndices(Val(solution)) :
            Val(clone).assignments[idx + 1] # None



(***************************************************************************)
(* src/src/metaheuristics/simulated_annealing.py: the acceptance decision  *)
(* of the main loop of SimulatedAnnealing.optimize, over the fitness       *)
(* values a current solution and a neighbor can have                       *)
(***************************************************************************)
\* the fitness values of a Solution: infinite, or a finite number
AcceptFitnesses == {Inf} \cup { Finite(n) : n \in {0, 1, 2, 1000, 3000} }

\* optimize has bound current_fitness and temperature and is at the head of
\* the while loop
InitAccept ==
    /\ impl = "core"
    /\ spectrum = NetworkInit
    /\ pre = spectrum
    /\ last = Constructed
    /\ nops = 0
    /\ assigned = <<>>
    /\ solution = None
    /\ clone = None
    /\ opt \in { Some([params |-> SAParams,
                       current_fitness |-> f,
                       temperature |-> SAParams.initial_temperature,
                       inner |-> 0,
                       accepted_count |-> 0]) : f \in AcceptFitnesses }

\* one pass of the body of the for loop from the acceptance decision on,
\* for a neighbor whose calculate_fitness() came to neighbor_fitness
Accept_iterate ==
    /\ opt # None
    /\ Val(opt).temperature > Val(opt).params.final_temperature
    /\ Val(opt).inner < Val(opt).params.iterations_per_temp
    /\ \E neighbor_fitness \in AcceptFitnesses, u \in {"low", "high"} :
        LET accept_prob ==
                _acceptance_probability(Val(opt).current_fitness,
                    neighbor_fitness, Val(opt).temperature)
            accepted == Accepts(accept_prob, u)
        IN  /\ opt' = Some([Val(opt) EXCEPT
                    !.current_fitness =
                        IF accepted THEN neighbor_fitness ELSE @,
                    !.accepted_count = IF accepted THEN @ + 1 ELSE @,
                    !.inner = @ + 1])
            /\ last' = [op |-> "iterate",
                        current_fitness |-> Val(opt).current_fitness,
                        neighbor_fitness |-> neighbor_fitness,
                        accept_prob |-> accept_prob,
                        accepted |-> accepted]
    /\ UNCHANGED <<impl, spectrum, pre, nops, assigned, solution, clone>>

\* the end of a temperature level: temperature *= self.cooling_rate
Accept_cool ==
    /\ opt # None
    /\ Val(opt).temperature > Val(opt).params.final_temperature
    /\ Val(opt).inner >= Val(opt).params.iterations_per_temp
    /\ opt' = Some([Val(opt) EXCEPT
            !.temperature = @ \div Val(opt).params.cooling_divisor,
            !.inner = 0,
            !.accepted_count = 0])
    /\ last' = [op |-> "cool"]
    /\ UNCHANGED <<impl, spectrum, pre, nops, assigned, solution, clone>>

NextAccept ==
    \/ Accept_iterate
    \/ Accept_cool

SpecAccept == InitAccept /\ [][NextAccept]_vars

\* C24: in the acceptance step a neighbor with strictly lower fitness than
\* the current solution is always accepted, a neighbor with infinite
\* fitness is never accepted whatever the current fitness, and the random
\* draw decides only for a finite neighbor that is not better than a finite
\* current solution.
C24_Acceptance ==
    last.op = "iterate" =>
        /\ FloatLess(last.neighbor_fitness, last.current_fitness)
            => last.accepted
        /\ last.neighbor_fitness.inf => ~last.accepted
        /\ last.accept_prob = "between" =>
            /\ ~last.neighbor_fitness.inf
            /\ ~last.current_fitness.inf
            /\ ~FloatLess(last.neighbor_fitness, last.current_fitness)

\* a worse finite neighbor has been accepted on the draw
C24_Witness ==
    /\ last.op = "iterate"
    /\ last.accept_prob = "between"
    /\ last.accepted
    /\ FloatLess(last.current_fitness, last.neighbor_fitness)



(***************************************************************************)
(* src/algorithms.py: GeneticOptimizer._crossover_ox1 over every pair of   *)
(* parents and every pair of cut points                                    *)
(***************************************************************************)
\* the lengths of the chromosomes crossed
CrossoverSizes == {2, 3, 4}

\* the permutations of the demand indices 0..size-1
Parents(size) == { <<>> \o order : order \in Shuffles(size) }

\* two parents of the same length have been selected
InitCrossover ==
    /\ impl = "final"
    /\ spectrum = NetworkInit
    /\ pre = spectrum
    /\ last = Constructed
    /\ nops = 0
    /\ assigned = <<>>
    /\ solution = None
    /\ clone = None
    /\ opt \in { Some([p1 |-> p1, p2 |-> p2]) :
                    p1, p2 \in UNION { Parents(size) :
                                        size \in CrossoverSizes } }
    /\ Len(Val(opt).p1) = Len(Val(opt).p2)

\* child = self._crossover_ox1(p1, p2), a, b being the sorted sample
Crossover_ox1 ==
    /\ opt # None /\ last.op # "_crossover_ox1"
    /\ \E pair \in SortedPairs(Len(Val(opt).p1)) :
        last' = [op |-> "_crossover_ox1",
                 a |-> pair[1], b |-> pair[2],
                 child |-> CrossoverAt(Val(opt).p1, Val(opt).p2,
                                       pair[1], pair[2])]
    /\ UNCHANGED <<impl, spectrum, pre, nops, assigned, solution, clone,
                   opt>>

\* the child replaces the first parent for the next crossover
Crossover_replace ==
    /\ opt # None /\ last.op = "_crossover_ox1"
    /\ opt' = Some([Val(opt) EXCEPT !.p1 = last.child])
    /\ last' = [op |-> "replace"]
    /\ UNCHANGED <<impl, spectrum, pre, nops, assigned, solution, clone>>

NextCrossover ==
    \/ Crossover_ox1
    \/ Crossover_replace

SpecCrossover == InitCrossover /\ [][NextCrossover]_vars

\* the 0-based position of gene x in chromosome p
PositionIn(p, x) == (CHOOSE k \in 1..Len(p) : p[k] = x) - 1

\* C25: for permutations p1 and p2 of the same indices and cut points
\* a < b, _crossover_ox1 returns a permutation of those indices (every index
\* once, no placeholder left) whose positions a..b-1 are p1's and whose
\* other positions, left to right, hold the remaining indices in the order
\* they have in p2.
C25_OrderCrossover ==
    last.op = "_crossover_ox1" =>
        LET p1 == Val(opt).p1
            p2 == Val(opt).p2
            child == last.child
            size == Len(p1)
            outside == { i \in 0..(size - 1) : i < last.a \/ i >= last.b }
        IN  /\ Len(child) = size
            /\ { child[i + 1] : i \in 0..(size - 1) } = 0..(size - 1)
            /\ \A i \in last.a..(last.b - 1) : child[i + 1] = p1[i + 1]
            /\ \A i, j \in outside :
                i < j => PositionIn(p2, child[i + 1])
                            < PositionIn(p2, child[j + 1])

\* a crossover whose child differs from both parents
C25_Witness ==
    /\ last.op = "_crossover_ox1"
    /\ Len(last.child) = 4
    /\ last.child # Val(opt).p1
    /\ last.child # Val(opt).p2
    /\ last.b - last.a = 2


\* a generation of GeneticOptimizer.optimize that ended without an exception
GenerationStep ==
    /\ opt # None /\ opt' # None
    /\ Val(opt).pc = "loop" /\ Val(opt').pc = "loop"
    /\ Val(opt').gen = Val(opt).gen + 1

\* C26 (GeneticOptimizer): across a generation of optimize, cataclysm
\* included, the best individual of the generation is in the next
\* population, the best fitness of the next population is not worse, and
\* the population keeps its size.
C26_BestCarried ==
    [][GenerationStep =>
        LET before == FitnessData(Val(opt).demands, Val(opt).population)
            after == FitnessData(Val(opt').demands, Val(opt').population)
        IN  /\ Len(Val(opt').population) = Len(Val(opt).population)
            /\ \E i \in 1..Len(Val(opt').population) :
                    Val(opt').population[i] = before[1].chrom
            /\ ~ScoreGreater(before[1].score, after[1].score)]_vars

IsCataclysmPopulation(population, best_chrome) ==
    /\ population[1] = best_chrome
    /\ \A i \in 2..Len(population) :
        \E o \in CataclysmClones(best_chrome) :
            o.exc = NoException /\ o.chrome = population[i]

\* C27: in a generation of GeneticOptimizer.optimize the stagnation counter
\* goes to 0 when the best individual improves the best max-slot or the
\* best assigned-count and up by one otherwise; the generation is a
\* cataclysm exactly when the counter thereby reaches 12: then the next
\* population is the best chromosome and mutated copies of it and the
\* counter is back at 0, otherwise the next population starts with the
\* elites; the counter is between 0 and 11 at the start of a generation.
C27_Stagnation ==
    [][GenerationStep =>
        LET go == Val(opt)
            fitness_data == FitnessData(go.demands, go.population)
            improved ==
                \/ fitness_data[1].max_slot < go.global_best_msi
                \/ fitness_data[1].assigned > go.global_best_assigned
            counted == IF improved THEN 0 ELSE go.stagnation_counter + 1
        IN  /\ go.stagnation_counter \in 0..11
            /\ Val(opt').stagnation_counter \in 0..11
            /\ last'.cataclysm = (counted = 12)
            /\ IF counted = 12
               THEN /\ Val(opt').stagnation_counter = 0
                    /\ IsCataclysmPopulation(Val(opt').population,
                                             Val(Val(opt').best_chrome))
               ELSE /\ Val(opt').stagnation_counter = counted
                    /\ \A i \in 1..Min2(2, Len(fitness_data)) :
                        Val(opt').population[i] = fitness_data[i].chrom]_vars

\* a cataclysm has run after twelve generations without improvement
C27_Witness ==
    /\ opt # None /\ last.op = "generation" /\ last.cataclysm
    /\ Val(opt).exc = NoException
    /\ Val(opt).stagnation_counter = 0
    /\ Val(opt).gen >= 13


\* the number of demands a Solution leaves unassigned
UnassignedCount(assignments) ==
    Cardinality({ i \in 1..Len(assignments) : assignments[i] = None })

C28_NeighborsRejected ==
    (solution # None /\ clone # None /\ last.op \in Operators
        /\ UnassignedCount(Val(solution).assignments) >= 2) =>
        /\ UnassignedCount(Val(clone).assignments) >= 1
        /\ calculate_fitness(Val(clone)).ret = Inf
        /\ _acceptance_probability(calculate_fitness(Val(solution)).ret,
                calculate_fitness(Val(clone)).ret,
                SAParams.initial_temperature) = "0.0"



(***************************************************************************)
(* src/src/core/solution.py against src/src/core/network.py: a Solution    *)
(* replayed on the grid, over assignments of positive, zero and negative   *)
(* width                                                                   *)
(***************************************************************************)
\* placements Assignment(...) can be built with: next to each other, on
\* different paths, overlapping, at the top of the grid, past it, below
\* slot 0, and with a num_slots of 0 and below 0
ViewPlacements ==
    { << <<0, 2>>, 0, 2 >>, << <<0, 2>>, 2, 3 >>, << <<0, 1, 2>>, 1, 1 >>,
      << <<0, 2>>, 1, 2 >>, << <<0, 2>>, NumSlots - 2, 2 >>,
      << <<0, 2>>, NumSlots - 1, 2 >>, << <<0, 2>>, -1, 2 >>,
      << <<0, 2>>, 3, 0 >>, << <<0, 1, 2>>, 0, -2 >> }

\* solution.set_assignment(demand_index, assignment)
View_set_assignment ==
    \E demand_index \in 0..(Len(ApplyDemands) - 1) :
      \E assignment \in {None} \cup
            { Some(SolAssignment(demand_index, p[1], p[2], p[3])) :
                p \in ViewPlacements } :
        /\ solution' = Some(set_assignment(Val(solution), demand_index,
                                           assignment))
        /\ last' = [op |-> "set_assignment", demand_index |-> demand_index]
        /\ UNCHANGED <<impl, spectrum, pre, nops, assigned, clone, opt>>

NextView ==
    \/ View_set_assignment
    \/ Call_apply_to_network

SpecView == InitApply /\ [][NextView]_vars

\* the max_slot the loop of calculate_fitness computes for a Solution
FitnessMaxSlot(sol) ==
    FitnessTerms(sol, 1, [max_slot |-> 0, total_spectrum |-> 0]).max_slot

\* C29: for a Solution that validate() accepts, apply_to_network replays
\* without raising and the watermark of the grid is afterwards the highest
\* end_slot of the assignments, the max-slot value of calculate_fitness.
C29_ViewsAgree ==
    (last.op = "apply_to_network" /\ validate(Val(solution)).is_valid) =>
        /\ last.exc = NoException
        /\ get_max_watermark(spectrum) = FitnessMaxSlot(Val(solution))


\* the demands in the order of a chromosome
OrderedDemands(demands, chromosome) ==
    [n \in 1..Len(chromosome) |-> demands[chromosome[n] + 1]]

\* _evaluate_fitness and run_sp_ff agree on assigned count and max slot for
\* the chromosome
SameAsBaseline(go, chromosome) ==
    LET fit == EvaluatedFitness[<<go.demands, chromosome>>]
        res == run_sp_ff(OrderedDemands(go.demands, chromosome),
                         go.params.k_paths)
    IN  /\ fit.assigned = res.assigned
        /\ fit.max_slot = res.max_slot

====
